---- MODULE Spec2Model ----
(***************************************************************************)
(* The streaming transform of api_transformer: iter_anthropic_events turns *)
(* a sequence of OpenAI Responses stream events into Anthropic Messages    *)
(* stream events.  The generator is modelled event by event: one action    *)
(* per branch of its loop, the helpers (_ensure_*, _close_active_block,    *)
(* _emit_thinking_block) as operators on the pair (stream state, emitted   *)
(* events).                                                                *)
(*                                                                         *)
(* Strings are sequences of one-character strings, so len() is Len and     *)
(* slicing is SubSeq.  Python's None is NoneStr for an optional string,    *)
(* NoBlock for active_block, NoIndex for active_index and NoneRec for an   *)
(* optional mapping.                                                       *)
(*                                                                         *)
(* The HTTP surface of server.py (create_message, the model map and the    *)
(* deep merge of its extras) is a second state machine, SpecServer, on the *)
(* variable srv; JSON values are tagged records there.  The pure functions *)
(* (model resolution, deep merge, scrubber, SSE decoder, item transform)   *)
(* are applied to bounded inputs by a third one, SpecCalls, on the         *)
(* variable call.                                                          *)
(***************************************************************************)
EXTENDS Integers, Sequences, FiniteSets, TLC

VARIABLES
    st,     \* the _StreamState of this call
    out,    \* the Anthropic events yielded so far, in order
    pc,     \* "loop": reading events; "returned": left by the terminal
            \* branch's return; "exhausted": input ended, epilogue ran
    keep_reasoning_summary,   \* the keyword argument of the call
    inp,    \* the upstream events read so far, in order
    src,    \* src[k]: the position in inp of the event whose handling
            \* yielded out[k] (Len(inp) + 1 for the code after the loop)
    srv,    \* the HTTP surface (server.py): the model map file and cache,
            \* and the request in progress
    call    \* a call of one of the pure functions: its name, its
            \* arguments and what it returned

vars == <<st, out, pc, keep_reasoning_summary, inp, src, srv, call>>

\* The variables of one call of the streaming transform.
stream_vars == <<st, out, pc, keep_reasoning_summary, inp, src>>

----------------------------------------------------------------------------
\* Bounds of the model.

\* Upstream events read in one run (the end of the input is not an event).
MaxEvents == 2

\* Events of a run of function-call events only.
MaxToolEvents == 4

\* Events of a run of one custom tool call next to one function call.
MaxCustomEvents == 3

\* Events of a run of text around one function call.
MaxTextEvents == 6

\* Events of a run of reasoning summaries around text and one function call.
MaxReasoningEvents == 4

----------------------------------------------------------------------------
\* Values.

NoneStr == "None"
NoneRec == [none |-> TRUE]
NoBlock == <<>>
TextBlock == <<"text">>
ToolBlock(item_id) == <<"tool", item_id>>
NoIndex == -1

IsToolBlock(b) == b # NoBlock /\ b[1] = "tool"

\* Item ids of the upstream stream: function calls and a custom tool call.
FcItems == {"fc_1", "fc_2"}
CtItems == {"ct_1"}
Items == FcItems \cup CtItems

\* The item an output_item.added event carries for a tool id.
CallIdOf(item_id) ==
    CASE item_id = "fc_1" -> "call_1"
      [] item_id = "fc_2" -> "call_2"
      [] OTHER -> "call_3"

NameOf(item_id) ==
    CASE item_id \in FcItems -> "get_weather"
      [] OTHER -> "run_shell"

ItemTypeOf(item_id) ==
    IF item_id \in FcItems THEN "function_call" ELSE "custom_tool_call"

ToolItem(item_id) ==
    [id |-> item_id, type |-> ItemTypeOf(item_id),
     call_id |-> CallIdOf(item_id), name |-> NameOf(item_id)]

\* Payload characters.  The transform never looks inside a payload (only at
\* its emptiness and its length), so the n-th event read carries the n-th
\* character: payloads are told apart in the output.
Chars == <<"A", "B", "C", "D", "E", "F", "G", "H", "I", "J", "K", "L">>

Fresh == <<Chars[Len(inp) + 1]>>

RECURSIVE Concat(_)
Concat(ss) == IF ss = <<>> THEN <<>> ELSE Head(ss) \o Concat(Tail(ss))

\* s[a:] of Python, for 0 <= a.
SliceFrom(s, a) == SubSeq(s, a + 1, Len(s))

\* s[a:b] of Python, for 0 <= a and 0 <= b <= len(s).
Slice(s, a, b) == SubSeq(s, a + 1, b)

\* The whitespace of the model: the blank and the newline.
Whitespace == {" ", "\n"}

\* str.strip() on the payload alphabet plus the whitespace.
RECURSIVE LStrip(_)
LStrip(s) ==
    IF s # <<>> /\ Head(s) \in Whitespace THEN LStrip(Tail(s)) ELSE s

RECURSIVE RStrip(_)
RStrip(s) ==
    IF s # <<>> /\ s[Len(s)] \in Whitespace
    THEN RStrip(SubSeq(s, 1, Len(s) - 1)) ELSE s

Strip(s) == RStrip(LStrip(s))

\* The escaping of a JSON string: of the characters of the model, the quote
\* and the backslash are escaped.
RECURSIVE JsonEscape(_)
JsonEscape(s) ==
    IF s = <<>> THEN <<>>
    ELSE (IF Head(s) \in {"\"", "\\"} THEN <<"\\", Head(s)>> ELSE <<Head(s)>>)
             \o JsonEscape(Tail(s))

\* json.dumps({"input": str(raw)}, ensure_ascii=True)
JsonDumpsInput(raw) ==
    <<"{", "\"", "i", "n", "p", "u", "t", "\"", ":", " ", "\"">>
        \o JsonEscape(raw) \o <<"\"", "}">>

----------------------------------------------------------------------------
\* _ToolCallState and _StreamState as constructed.

NewToolCallState(item) ==
    [item_id |-> item.id, name |-> item.name, call_id |-> item.call_id,
     partial_json |-> <<>>, emitted_chars |-> 0, done |-> FALSE]

MessageId == "msg_1"
DefaultModel == "unknown"

NewStreamState ==
    [message_id |-> MessageId, model |-> DefaultModel, started |-> FALSE,
     content_index |-> 0, active_block |-> NoBlock, active_index |-> NoIndex,
     tool_calls |-> <<>>, tool_queue |-> <<>>, pending_text |-> <<>>,
     last_emitted_block_type |-> NoneStr, response_usage |-> NoneRec,
     stop_reason |-> NoneStr, reasoning_summary |-> <<>>,
     reasoning_emitted |-> FALSE]

\* A computation in progress: the stream state and the events yielded.
Ctx == [st |-> st, out |-> out]

Emit(c, ev) == [c EXCEPT !.out = Append(@, ev)]

----------------------------------------------------------------------------
\* The helpers.

\* _ensure_message_started without its started guard.
_ensure_message_started_unguarded(c) ==
    Emit([c EXCEPT !.st.started = TRUE,
                   !.st.last_emitted_block_type = NoneStr],
         [type |-> "message_start",
          message |-> [id |-> c.st.message_id, model |-> c.st.model]])

_ensure_message_started(c) ==
    IF c.st.started THEN c
    ELSE Emit([c EXCEPT !.st.started = TRUE,
                        !.st.last_emitted_block_type = NoneStr],
              [type |-> "message_start",
               message |-> [id |-> c.st.message_id, model |-> c.st.model]])

\* The guard of the queue advance in _close_active_block.
AdvanceQueue(s) ==
    s.tool_queue # <<>> /\ s.last_emitted_block_type = "tool_use"

_close_active_block(c) ==
    IF c.st.active_block = NoBlock THEN c
    ELSE Emit([c EXCEPT !.st.active_block = NoBlock,
                        !.st.active_index = NoIndex,
                        !.st.tool_queue =
                            IF AdvanceQueue(c.st) THEN Tail(@) ELSE @],
              [type |-> "content_block_stop", index |-> c.st.active_index])

\* _ensure_text_block opening its block without advancing content_index.
_ensure_text_block_same_index(c) ==
    IF c.st.active_block = TextBlock THEN c
    ELSE LET c1 == _close_active_block(c)
             idx == c1.st.content_index
         IN  Emit([c1 EXCEPT !.st.active_block = TextBlock,
                             !.st.active_index = idx,
                             !.st.last_emitted_block_type = "text"],
                  [type |-> "content_block_start", index |-> idx,
                   content_block |-> [type |-> "text"]])

_ensure_text_block(c) ==
    IF c.st.active_block = TextBlock THEN c
    ELSE LET c1 == _close_active_block(c)
             idx == c1.st.content_index
         IN  Emit([c1 EXCEPT !.st.active_block = TextBlock,
                             !.st.active_index = idx,
                             !.st.content_index = idx + 1,
                             !.st.last_emitted_block_type = "text"],
                  [type |-> "content_block_start", index |-> idx,
                   content_block |-> [type |-> "text"]])

\* The guard of _ensure_tool_block: the block may be opened for item_id.
MayOpenToolBlock(s, item_id) ==
    /\ s.active_block # ToolBlock(item_id)
    /\ ~(s.tool_queue # <<>> /\ s.tool_queue[1] # item_id)
    /\ item_id \in DOMAIN s.tool_calls

\* _ensure_tool_block without the empty input_json_delta after the start.
_ensure_tool_block_no_empty_delta(c, item_id, emit_buffered) ==
    IF ~MayOpenToolBlock(c.st, item_id) THEN c
    ELSE LET tc == c.st.tool_calls[item_id]
             c1 == _close_active_block(c)
             idx == c1.st.content_index
             c2 == Emit([c1 EXCEPT !.st.active_block = ToolBlock(item_id),
                                   !.st.active_index = idx,
                                   !.st.content_index = idx + 1,
                                   !.st.last_emitted_block_type = "tool_use"],
                        [type |-> "content_block_start", index |-> idx,
                         content_block |-> [type |-> "tool_use",
                                            id |-> tc.call_id,
                                            name |-> tc.name,
                                            input |-> <<>>]])
             suffix == SliceFrom(tc.partial_json, tc.emitted_chars)
         IN  IF /\ emit_buffered
                /\ tc.partial_json # <<>>
                /\ tc.emitted_chars < Len(tc.partial_json)
                /\ suffix # <<>>
             THEN [Emit(c2, [type |-> "content_block_delta", index |-> idx,
                             delta |-> [type |-> "input_json_delta",
                                        partial_json |-> suffix]])
                     EXCEPT !.st.tool_calls[item_id].emitted_chars =
                                Len(tc.partial_json)]
             ELSE c2

_ensure_tool_block(c, item_id, emit_buffered) ==
    IF ~MayOpenToolBlock(c.st, item_id) THEN c
    ELSE LET tc == c.st.tool_calls[item_id]
             c1 == _close_active_block(c)
             idx == c1.st.content_index
             c2 == Emit([c1 EXCEPT !.st.active_block = ToolBlock(item_id),
                                   !.st.active_index = idx,
                                   !.st.content_index = idx + 1,
                                   !.st.last_emitted_block_type = "tool_use"],
                        [type |-> "content_block_start", index |-> idx,
                         content_block |-> [type |-> "tool_use",
                                            id |-> tc.call_id,
                                            name |-> tc.name,
                                            input |-> <<>>]])
             c3 == Emit(c2, [type |-> "content_block_delta", index |-> idx,
                             delta |-> [type |-> "input_json_delta",
                                        partial_json |-> <<>>]])
             suffix == SliceFrom(tc.partial_json, tc.emitted_chars)
         IN  IF /\ emit_buffered
                /\ tc.partial_json # <<>>
                /\ tc.emitted_chars < Len(tc.partial_json)
                /\ suffix # <<>>
             THEN [Emit(c3, [type |-> "content_block_delta", index |-> idx,
                             delta |-> [type |-> "input_json_delta",
                                        partial_json |-> suffix]])
                     EXCEPT !.st.tool_calls[item_id].emitted_chars =
                                Len(tc.partial_json)]
             ELSE c3

\* _emit_thinking_block emitting the summary as it is, not stripped.
_emit_thinking_block_unstripped(c, summary) ==
    LET text == Strip(summary) IN
    IF text = <<>> THEN c
    ELSE LET c1 == _close_active_block(_ensure_message_started(c))
             idx == c1.st.content_index
             c2 == Emit([c1 EXCEPT !.st.content_index = idx + 1,
                                   !.st.last_emitted_block_type = "thinking"],
                        [type |-> "content_block_start", index |-> idx,
                         content_block |-> [type |-> "thinking"]])
             c3 == Emit(c2, [type |-> "content_block_delta", index |-> idx,
                             delta |-> [type |-> "thinking_delta",
                                        thinking |-> summary]])
         IN  Emit(c3, [type |-> "content_block_stop", index |-> idx])

_emit_thinking_block(c, summary) ==
    LET text == Strip(summary) IN
    IF text = <<>> THEN c
    ELSE LET c1 == _close_active_block(_ensure_message_started(c))
             idx == c1.st.content_index
             c2 == Emit([c1 EXCEPT !.st.content_index = idx + 1,
                                   !.st.last_emitted_block_type = "thinking"],
                        [type |-> "content_block_start", index |-> idx,
                         content_block |-> [type |-> "thinking"]])
             c3 == Emit(c2, [type |-> "content_block_delta", index |-> idx,
                             delta |-> [type |-> "thinking_delta",
                                        thinking |-> text]])
         IN  Emit(c3, [type |-> "content_block_stop", index |-> idx])

----------------------------------------------------------------------------
\* The branches of the loop of iter_anthropic_events, each as the computation
\* it leaves.  kr is keep_reasoning_summary.

\* response.reasoning_summary* without the test of the keep flag.
ReasoningSummaryEventAlways(c, kr, suffix, text) ==
    IF suffix = ".delta"
    THEN IF text # <<>>
         THEN [c EXCEPT !.st.reasoning_summary = @ \o text]
         ELSE c
    ELSE IF text # <<>>
         THEN [c EXCEPT !.st.reasoning_summary = text]
         ELSE c

\* response.reasoning_summary*: suffix is ".delta", ".done" or anything else;
\* text is the event's delta (".delta"), or its summary || text || delta.
ReasoningSummaryEvent(c, kr, suffix, text) ==
    IF ~kr THEN c
    ELSE IF suffix = ".delta"
         THEN IF text # <<>>
              THEN [c EXCEPT !.st.reasoning_summary = @ \o text]
              ELSE c
         ELSE IF text # <<>>
              THEN [c EXCEPT !.st.reasoning_summary = text]
              ELSE c

\* response.created: m is response.model ("" when absent).
ResponseCreated(c, m) ==
    IF m # "" THEN [c EXCEPT !.st.model = m] ELSE c

\* response.output_item.added: item has id, type and, by type, call_id and
\* name or summary.
OutputItemAdded(c, kr, item) ==
    IF item.type = "reasoning" /\ kr
    THEN IF item.summary # <<>>
         THEN [c EXCEPT !.st.reasoning_summary = item.summary]
         ELSE c
    ELSE IF item.type \in {"function_call", "custom_tool_call"}
         THEN [c EXCEPT
                 !.st.tool_calls =
                     [k \in DOMAIN @ \cup {item.id} |->
                         IF k = item.id THEN NewToolCallState(item) ELSE @[k]],
                 !.st.tool_queue = Append(@, item.id)]
         ELSE c

TextDeltaEvent(index, text) ==
    [type |-> "content_block_delta", index |-> index,
     delta |-> [type |-> "text_delta", text |-> text]]

InputJsonDeltaEvent(index, partial_json) ==
    [type |-> "content_block_delta", index |-> index,
     delta |-> [type |-> "input_json_delta", partial_json |-> partial_json]]

\* response.output_text.delta
OutputTextDelta(c, delta) ==
    LET c1 == _ensure_message_started(c) IN
    IF delta = <<>> THEN c1
    ELSE IF IsToolBlock(c1.st.active_block)
         THEN [c1 EXCEPT !.st.pending_text = Append(@, delta)]
         ELSE LET c2 == _ensure_text_block(c1)
              IN  Emit(c2, TextDeltaEvent(c2.st.active_index, delta))

\* response.refusal.delta
RefusalDelta(c, delta) ==
    LET c1 == _ensure_message_started(c) IN
    IF delta = <<>> THEN c1
    ELSE IF IsToolBlock(c1.st.active_block)
         THEN [c1 EXCEPT !.st.pending_text = Append(@, delta)]
         ELSE LET c2 == _ensure_text_block(c1)
              IN  Emit(c2, TextDeltaEvent(c2.st.active_index, delta))

\* response.function_call_arguments.delta: has_delta is "delta is not None".
FunctionCallArgumentsDelta(c, item_id, has_delta, delta) ==
    IF item_id \notin DOMAIN c.st.tool_calls THEN c
    ELSE
    LET delta_str == IF has_delta THEN delta ELSE <<>>
        c1 == [c EXCEPT !.st.tool_calls[item_id].partial_json = @ \o delta_str]
        c2 == _ensure_message_started(c1)
        c3 == _ensure_tool_block(c2, item_id, FALSE)
        tc == c3.st.tool_calls[item_id]
        buffered_len == Len(tc.partial_json) - Len(delta_str)
        prefix == Slice(tc.partial_json, tc.emitted_chars, buffered_len)
        c4 == IF tc.emitted_chars < buffered_len /\ prefix # <<>>
              THEN [Emit(c3, InputJsonDeltaEvent(c3.st.active_index, prefix))
                      EXCEPT !.st.tool_calls[item_id].emitted_chars =
                                 buffered_len]
              ELSE c3
    IN  IF c3.st.active_block = ToolBlock(item_id) /\ has_delta
        THEN [Emit(c4, InputJsonDeltaEvent(c4.st.active_index, delta_str))
                EXCEPT !.st.tool_calls[item_id].emitted_chars =
                           @ + Len(delta_str)]
        ELSE c3

\* response.function_call_arguments.done: has_args is
\* "isinstance(arguments, str)".
FunctionCallArgumentsDone(c, item_id, has_args, args) ==
    IF item_id \notin DOMAIN c.st.tool_calls THEN c
    ELSE
    LET c1 == [c EXCEPT !.st.tool_calls[item_id].done = TRUE]
        c2 == _ensure_message_started(c1)
        c3 == _ensure_tool_block(c2, item_id, TRUE)
        c4 == IF c3.st.tool_calls[item_id].partial_json = <<>>
              THEN [c3 EXCEPT !.st.tool_calls[item_id].partial_json = args]
              ELSE c3
        tc == c4.st.tool_calls[item_id]
        suffix == SliceFrom(tc.partial_json, tc.emitted_chars)
    IN  IF ~has_args THEN c3
        ELSE IF /\ c4.st.active_block = ToolBlock(item_id)
                /\ tc.emitted_chars < Len(tc.partial_json)
                /\ suffix # <<>>
             THEN [Emit(c4, InputJsonDeltaEvent(c4.st.active_index, suffix))
                     EXCEPT !.st.tool_calls[item_id].emitted_chars =
                                Len(tc.partial_json)]
             ELSE c4

\* response.custom_tool_call_input.delta starting the message for an item
\* it does not know.
CustomToolCallInputDeltaStarting(c, item_id, has_delta, delta) ==
    IF item_id \notin DOMAIN c.st.tool_calls THEN _ensure_message_started(c)
    ELSE [c EXCEPT !.st.tool_calls[item_id].partial_json =
                       @ \o (IF has_delta THEN delta ELSE <<>>)]

\* response.custom_tool_call_input.delta
CustomToolCallInputDelta(c, item_id, has_delta, delta) ==
    IF item_id \notin DOMAIN c.st.tool_calls THEN c
    ELSE [c EXCEPT !.st.tool_calls[item_id].partial_json =
                       @ \o (IF has_delta THEN delta ELSE <<>>)]

\* response.custom_tool_call_input.done: has_input is "input is not None".
CustomToolCallInputDone(c, item_id, has_input, input) ==
    IF item_id \notin DOMAIN c.st.tool_calls THEN c
    ELSE
    LET raw == IF has_input THEN input
               ELSE c.st.tool_calls[item_id].partial_json
        c1 == [c EXCEPT !.st.tool_calls[item_id].done = TRUE,
                        !.st.tool_calls[item_id].partial_json =
                            JsonDumpsInput(raw)]
        c2 == _ensure_message_started(c1)
        c3 == _ensure_tool_block(c2, item_id, TRUE)
    IN  Emit(c3, InputJsonDeltaEvent(c3.st.active_index,
                                     c3.st.tool_calls[item_id].partial_json))

\* The drain with pop() for pop(0): the newest fragment first.
RECURSIVE DrainPendingTextFromEnd(_)
DrainPendingTextFromEnd(c) ==
    IF c.st.pending_text = <<>> THEN c
    ELSE LET n == Len(c.st.pending_text) IN
         DrainPendingTextFromEnd(
             Emit([c EXCEPT !.st.pending_text = SubSeq(@, 1, n - 1)],
                  TextDeltaEvent(c.st.active_index, c.st.pending_text[n])))

RECURSIVE DrainPendingText(_)
DrainPendingText(c) ==
    IF c.st.pending_text = <<>> THEN c
    ELSE DrainPendingText(
             Emit([c EXCEPT !.st.pending_text = Tail(@)],
                  TextDeltaEvent(c.st.active_index, Head(c.st.pending_text))))

\* response.output_item.done: item has type and id.
OutputItemDone(c, item) ==
    IF item.type = "message" THEN _close_active_block(c)
    ELSE IF item.type \in {"function_call", "custom_tool_call"}
    THEN LET c1 == _ensure_message_started(c)
             c2 == _ensure_tool_block(c1, item.id, TRUE)
             c3 == _close_active_block(c2)
         IN  IF c3.st.pending_text # <<>>
             THEN DrainPendingText(_ensure_text_block(c3))
             ELSE c3
    ELSE c

\* The derivation in which a last tool call wins over max_tokens.
TerminalStopReasonToolFirst(stop_reason, resp) ==
    IF resp.last_output_type \in {"function_call", "custom_tool_call"}
    THEN "tool_use"
    ELSE IF resp.incomplete_reason = "max_tokens" THEN "max_tokens"
    ELSE IF stop_reason = NoneStr THEN "end_turn" ELSE stop_reason

\* The stop reason a terminal event leaves, resp being a mapping.
TerminalStopReason(stop_reason, resp) ==
    LET s1 == IF resp.incomplete_reason = "max_tokens"
              THEN "max_tokens" ELSE stop_reason
        s2 == IF resp.last_output_type \in {"function_call", "custom_tool_call"}
                 /\ s1 = NoneStr
              THEN "tool_use" ELSE s1
    IN  IF s2 = NoneStr THEN "end_turn" ELSE s2

\* usage of message_delta, from st.response_usage.
MessageDeltaUsage(response_usage) ==
    IF "none" \notin DOMAIN response_usage
       /\ "output_tokens" \in DOMAIN response_usage
    THEN [output_tokens |-> response_usage.output_tokens]
    ELSE <<>>

MessageDeltaEvent(stop_reason, usage) ==
    [type |-> "message_delta", delta |-> [stop_reason |-> stop_reason],
     usage |-> usage]

\* The thinking block before the message terminals.
EmitPendingThinking(c, kr) ==
    IF kr /\ c.st.reasoning_summary # <<>> /\ ~c.st.reasoning_emitted
    THEN [_emit_thinking_block(c, c.st.reasoning_summary)
            EXCEPT !.st.reasoning_emitted = TRUE]
    ELSE c

\* The terminal branch without its _ensure_message_started.
TerminalEventUnstarted(c, kr, resp) ==
    LET c1 == IF resp.is_dict
              THEN [c EXCEPT
                      !.st.response_usage = resp.usage,
                      !.st.stop_reason = TerminalStopReason(@, resp)]
              ELSE c
        c2 == _close_active_block(c1)
        c5 == Emit(c2, MessageDeltaEvent(c2.st.stop_reason,
                                         MessageDeltaUsage(c2.st.response_usage)))
    IN  Emit(c5, [type |-> "message_stop"])

\* response.completed, response.incomplete, response.failed (up to the
\* return).  resp is the event's response: is_dict, usage, reasoning_summary,
\* incomplete_reason (incomplete_details.reason) and last_output_type (the
\* type of output[-1], "" for no output).
TerminalEvent(c, kr, resp) ==
    LET c1 == IF resp.is_dict
              THEN [c EXCEPT
                      !.st.response_usage = resp.usage,
                      !.st.reasoning_summary =
                          IF kr /\ @ = <<>>
                             /\ Strip(resp.reasoning_summary) # <<>>
                          THEN resp.reasoning_summary ELSE @,
                      !.st.stop_reason = TerminalStopReason(@, resp)]
              ELSE c
        c2 == _close_active_block(c1)
        c3 == EmitPendingThinking(c2, kr)
        c4 == _ensure_message_started(c3)
        c5 == Emit(c4, MessageDeltaEvent(c4.st.stop_reason,
                                         MessageDeltaUsage(c4.st.response_usage)))
    IN  Emit(c5, [type |-> "message_stop"])

\* EndOfStream as it would be without its _close_active_block.
EndOfStreamWithoutClose(c, kr) ==
    IF ~c.st.started THEN c
    ELSE LET c2 == EmitPendingThinking(c, kr)
             c3 == Emit(c2, MessageDeltaEvent(
                              IF c2.st.stop_reason = NoneStr THEN "end_turn"
                              ELSE c2.st.stop_reason, <<>>))
         IN  Emit(c3, [type |-> "message_stop"])

\* EndOfStream as it would be without its started guard.
EndOfStreamUnguarded(c, kr) ==
    LET c1 == _close_active_block(c)
        c2 == EmitPendingThinking(c1, kr)
        c3 == Emit(c2, MessageDeltaEvent(
                         IF c2.st.stop_reason = NoneStr THEN "end_turn"
                         ELSE c2.st.stop_reason, <<>>))
    IN  Emit(c3, [type |-> "message_stop"])

\* The code after the loop: the input ended without a terminal event.
EndOfStream(c, kr) ==
    IF ~c.st.started THEN c
    ELSE LET c1 == _close_active_block(c)
             c2 == EmitPendingThinking(c1, kr)
             c3 == Emit(c2, MessageDeltaEvent(
                              IF c2.st.stop_reason = NoneStr THEN "end_turn"
                              ELSE c2.st.stop_reason, <<>>))
         IN  Emit(c3, [type |-> "message_stop"])

----------------------------------------------------------------------------
\* The upstream events offered to the transform.

\* The response objects of the terminal events.
NoResponseFields ==
    [is_dict |-> TRUE, usage |-> NoneRec, reasoning_summary |-> <<>>,
     incomplete_reason |-> "", last_output_type |-> ""]

Responses ==
    {[NoResponseFields EXCEPT !.usage = [output_tokens |-> 2]],
     [NoResponseFields EXCEPT !.usage = [input_tokens |-> 1],
                              !.last_output_type = "function_call"],
     [NoResponseFields EXCEPT !.incomplete_reason = "max_tokens",
                              !.last_output_type = "custom_tool_call"],
     [NoResponseFields EXCEPT !.reasoning_summary = <<"R">>],
     [NoResponseFields EXCEPT !.is_dict = FALSE]}

\* An event of a run of function calls only: well-formed events of the
\* function-call items.
IsToolRunEvent(ev) ==
    \/ /\ ev.type \in {"response.output_item.added",
                       "response.output_item.done"}
       /\ ev.item.id \in FcItems
    \/ /\ ev.type = "response.function_call_arguments.delta"
       /\ ev.has_delta
    \/ /\ ev.type = "response.function_call_arguments.done"
       /\ ev.has_args
    \/ /\ ev.type = "response.completed"
       /\ ev.response.is_dict
       /\ ev.response.incomplete_reason = ""

\* An event of a run of one custom tool call next to one function call.
IsCustomRunEvent(ev) ==
    \/ /\ ev.type \in {"response.output_item.added",
                       "response.output_item.done"}
       /\ ev.item.id \in {"fc_1", "ct_1"}
    \/ ev.type \in {"response.custom_tool_call_input.delta",
                    "response.custom_tool_call_input.done"}

\* An event of a run of reasoning summaries around text and one function
\* call.
IsReasoningRunEvent(ev) ==
    \/ ev.type \in {"response.reasoning_summary", "response.completed"}
    \/ /\ ev.type = "response.output_text.delta"
       /\ ev.delta # <<>>
    \/ /\ ev.type \in {"response.output_item.added",
                       "response.output_item.done"}
       /\ ev.item.id = "fc_1"

\* An event of a run of text around one function call.
IsTextRunEvent(ev) ==
    \/ /\ ev.type = "response.output_text.delta"
       /\ ev.delta # <<>>
    \/ /\ ev.type = "response.output_item.added"
       /\ ev.item.id = "fc_1"
    \/ /\ ev.type = "response.output_item.done"
       /\ ev.item.id \in {"fc_1", "msg_1"}
    \/ /\ ev.type = "response.function_call_arguments.delta"
       /\ ev.item_id = "fc_1"
       /\ ev.has_delta
    \/ /\ ev.type = "response.completed"
       /\ ev.response.is_dict
       /\ ev.response.incomplete_reason = ""
       /\ ev.response.last_output_type = ""

\* The input runs explored: every run of at most MaxEvents events, the runs
\* of function-call events of at most MaxToolEvents events, the runs of one
\* custom tool call next to one function call of at most MaxCustomEvents
\* events, the runs of reasoning summaries around text and one function call
\* of at most MaxReasoningEvents events and the runs of text around one
\* function call of at most MaxTextEvents events (the runs of tool events and
\* of text without reasoning summaries).
Allowed(ev) ==
    LET run == Append(inp, ev) IN
    \/ Len(run) <= MaxEvents
    \/ /\ ~keep_reasoning_summary
       /\ Len(run) <= MaxToolEvents
       /\ \A i \in 1..Len(run) : IsToolRunEvent(run[i])
    \/ /\ ~keep_reasoning_summary
       /\ Len(run) <= MaxCustomEvents
       /\ \A i \in 1..Len(run) : IsCustomRunEvent(run[i])
    \/ /\ Len(run) <= MaxReasoningEvents
       /\ \A i \in 1..Len(run) : IsReasoningRunEvent(run[i])
    \/ /\ ~keep_reasoning_summary
       /\ Len(run) <= MaxTextEvents
       /\ \A i \in 1..Len(run) : IsTextRunEvent(run[i])

----------------------------------------------------------------------------
\* The HTTP surface when only the transform is run.
NoServer == [pc |-> "off"]

\* No pure function is being called.
NoCall == [f |-> "none"]

Init ==
    /\ st = NewStreamState
    /\ out = <<>>
    /\ pc = "loop"
    /\ keep_reasoning_summary \in BOOLEAN
    /\ inp = <<>>
    /\ src = <<>>
    /\ srv = NoServer
    /\ call = NoCall

\* The events yielded by a computation that leaves c are those of the event
\* being handled.
Yielded(c) == src \o [k \in 1..(Len(c.out) - Len(out)) |-> Len(inp) + 1]

\* One iteration of the loop: event ev was read and left the computation c.
Step(ev, c) ==
    /\ pc = "loop"
    /\ Allowed(ev)
    /\ st' = c.st
    /\ out' = c.out
    /\ inp' = Append(inp, ev)
    /\ src' = Yielded(c)
    /\ UNCHANGED <<pc, keep_reasoning_summary, srv, call>>

\* The terminal branch going on with the loop.
AfterTerminalContinue == "loop"

\* Where the terminal branch leaves the generator: it returns.
AfterTerminal == "returned"

\* The text of a reasoning summary event: a string or a blank.
ReadReasoningSummary ==
    \E suffix \in {".delta", ".done"}, text \in {Fresh, <<" ">>} :
        Step([type |-> "response.reasoning_summary", suffix |-> suffix,
              text |-> text],
             ReasoningSummaryEvent(Ctx, keep_reasoning_summary, suffix, text))

\* Any other response.reasoning* event is dropped.
ReadReasoningOther ==
    Step([type |-> "response.reasoning"], Ctx)

ReadResponseCreated ==
    Step([type |-> "response.created", model |-> "gpt-5.2"],
         ResponseCreated(Ctx, "gpt-5.2"))

ReadOutputItemAdded ==
    \/ \E item_id \in Items \ DOMAIN st.tool_calls :
          Step([type |-> "response.output_item.added",
                item |-> ToolItem(item_id)],
               OutputItemAdded(Ctx, keep_reasoning_summary, ToolItem(item_id)))
    \/ \E item \in {[id |-> "rs_1", type |-> "reasoning", summary |-> Fresh],
                    [id |-> "msg_1", type |-> "message"]} :
          Step([type |-> "response.output_item.added", item |-> item],
               OutputItemAdded(Ctx, keep_reasoning_summary, item))

ReadOutputTextDelta ==
    \E delta \in {<<>>, Fresh} :
        Step([type |-> "response.output_text.delta", delta |-> delta],
             OutputTextDelta(Ctx, delta))

\* response.output_text.done does nothing.
ReadOutputTextDone ==
    Step([type |-> "response.output_text.done"], Ctx)

ReadRefusalDelta ==
    Step([type |-> "response.refusal.delta", delta |-> Fresh],
         RefusalDelta(Ctx, Fresh))

ReadFunctionCallArgumentsDelta ==
    \E item_id \in FcItems, has_delta \in BOOLEAN :
        Step([type |-> "response.function_call_arguments.delta",
              item_id |-> item_id, has_delta |-> has_delta,
              delta |-> IF has_delta THEN Fresh ELSE <<>>],
             FunctionCallArgumentsDelta(Ctx, item_id, has_delta,
                                        IF has_delta THEN Fresh ELSE <<>>))

\* The arguments a done event carries: what the deltas spelled, or "{}" when
\* there was none.
DoneArguments(item_id) ==
    LET sent == Concat([i \in 1..Len(inp) |->
                    IF /\ inp[i].type = "response.function_call_arguments.delta"
                       /\ inp[i].item_id = item_id /\ inp[i].has_delta
                    THEN inp[i].delta ELSE <<>>])
    IN  IF sent = <<>> THEN <<"{", "}">> ELSE sent

ReadFunctionCallArgumentsDone ==
    \E item_id \in FcItems, has_args \in BOOLEAN :
        Step([type |-> "response.function_call_arguments.done",
              item_id |-> item_id, has_args |-> has_args,
              arguments |-> IF has_args THEN DoneArguments(item_id) ELSE <<>>],
             FunctionCallArgumentsDone(Ctx, item_id, has_args,
                 IF has_args THEN DoneArguments(item_id) ELSE <<>>))

ReadCustomToolCallInputDelta ==
    \E item_id \in CtItems :
        Step([type |-> "response.custom_tool_call_input.delta",
              item_id |-> item_id, has_delta |-> TRUE, delta |-> Fresh],
             CustomToolCallInputDelta(Ctx, item_id, TRUE, Fresh))

\* The input of a done event: absent, the empty string or a string.
ReadCustomToolCallInputDone ==
    \E item_id \in CtItems, has_input \in BOOLEAN, input \in {<<>>, Fresh} :
        /\ ~has_input => input = <<>>
        /\ Step([type |-> "response.custom_tool_call_input.done",
                 item_id |-> item_id, has_input |-> has_input,
                 input |-> input],
                CustomToolCallInputDone(Ctx, item_id, has_input, input))

ReadOutputItemDone ==
    \E item \in {[id |-> "msg_1", type |-> "message"]}
                  \cup {[id |-> i, type |-> ItemTypeOf(i)] : i \in Items} :
        Step([type |-> "response.output_item.done", item |-> item],
             OutputItemDone(Ctx, item))

ReadTerminal ==
    \E resp \in Responses :
        LET ev == [type |-> "response.completed", response |-> resp]
            c == TerminalEvent(Ctx, keep_reasoning_summary, resp)
        IN  /\ pc = "loop"
            /\ Allowed(ev)
            /\ st' = c.st
            /\ out' = c.out
            /\ inp' = Append(inp, ev)
            /\ src' = Yielded(c)
            /\ pc' = AfterTerminal
            /\ UNCHANGED <<keep_reasoning_summary, srv, call>>

\* The input ends.
EndOfInput ==
    LET c == EndOfStream(Ctx, keep_reasoning_summary)
    IN  /\ pc = "loop"
        /\ st' = c.st
        /\ out' = c.out
        /\ src' = Yielded(c)
        /\ pc' = "exhausted"
        /\ UNCHANGED <<inp, keep_reasoning_summary, srv, call>>

\* The generator has returned: whatever upstream still sends is not read by
\* it and yields nothing.
AfterReturn ==
    \E ev \in {[type |-> "response.completed",
                response |-> [NoResponseFields EXCEPT
                                 !.usage = [output_tokens |-> 2]]],
               [type |-> "response.output_text.delta", delta |-> Fresh]} :
        /\ pc = "returned"
        /\ Allowed(ev)
        /\ inp' = Append(inp, ev)
        /\ UNCHANGED <<st, out, pc, keep_reasoning_summary, src, srv, call>>

Next ==
    \/ ReadReasoningSummary
    \/ ReadReasoningOther
    \/ ReadResponseCreated
    \/ ReadOutputItemAdded
    \/ ReadOutputTextDelta
    \/ ReadOutputTextDone
    \/ ReadRefusalDelta
    \/ ReadFunctionCallArgumentsDelta
    \/ ReadFunctionCallArgumentsDone
    \/ ReadCustomToolCallInputDelta
    \/ ReadCustomToolCallInputDone
    \/ ReadOutputItemDone
    \/ ReadTerminal
    \/ EndOfInput
    \/ AfterReturn

Spec == Init /\ [][Next]_vars

----------------------------------------------------------------------------
\* The emitted stream.

Positions(type) == {k \in 1..Len(out) : out[k].type = type}

Starts == Positions("content_block_start")
Stops == Positions("content_block_stop")
Deltas == Positions("content_block_delta")

\* The run is over: the generator returned or its input ended.
Finished == pc # "loop"

\* The stops of the block started at position i.
StopsOf(i) == {k \in Stops : out[k].index = out[i].index}

----------------------------------------------------------------------------
\* C1: at most one content block is open at any time: a block is stopped
\* before the next one starts; every content_block_start has at most one
\* content_block_stop of its index, after it, and exactly one before
\* message_delta, which a finished run that emitted anything has; every
\* content_block_stop stops a block started before it; and the block the
\* emitted stream leaves open is the one the state holds as active.
C1_BlockBracketing ==
    /\ \A i \in Starts :
          /\ Cardinality(StopsOf(i)) <= 1
          /\ \A k \in StopsOf(i) : i < k
    /\ \A k \in Stops : \E i \in Starts : k \in StopsOf(i)
    /\ \A i \in Starts, j \in Starts :
          i < j => \E k \in StopsOf(i) : k < j
    /\ \A m \in Positions("message_delta"), i \in Starts :
          i < m /\ \E k \in StopsOf(i) : k < m
    /\ {out[i].index : i \in {j \in Starts : StopsOf(j) = {}}}
          = IF st.active_block = NoBlock THEN {} ELSE {st.active_index}
    /\ Finished /\ out # <<>> => Positions("message_delta") # {}

\* A run whose input ended with a second block still open: the code after
\* the loop stopped it.
C1_Witness ==
    /\ pc = "exhausted"
    /\ Cardinality(Starts) >= 2
    /\ \E k \in Stops : src[k] = Len(inp) + 1


----------------------------------------------------------------------------
\* Reading the emitted stream against the events read.

ToolStarts == {i \in Starts : out[i].content_block.type = "tool_use"}

\* The item whose tool_use block starts at position i.
ItemOfStart(i) == CHOOSE t \in Items : CallIdOf(t) = out[i].content_block.id

\* The blocks of item t.
StartsOfItem(t) == {i \in ToolStarts : ItemOfStart(i) = t}

\* The block open when out[k] was emitted: started before k, not stopped
\* before k.
OpenAt(k) == {i \in Starts : i < k /\ \A j \in StopsOf(i) : k < j}

DeltaTypeOf(block_type) ==
    CASE block_type = "text" -> "text_delta"
      [] block_type = "tool_use" -> "input_json_delta"
      [] OTHER -> "thinking_delta"

IsInputJsonDelta(ev) ==
    ev.type = "content_block_delta" /\ ev.delta.type = "input_json_delta"

IsTextDelta(ev) ==
    ev.type = "content_block_delta" /\ ev.delta.type = "text_delta"

\* What the input_json_delta events of t's blocks spell.
EmittedJson(t) ==
    Concat([k \in 1..Len(out) |->
               IF /\ IsInputJsonDelta(out[k])
                  /\ \E i \in StartsOfItem(t) : out[i].index = out[k].index
               THEN out[k].delta.partial_json ELSE <<>>])

\* What the text_delta events spell.
EmittedText ==
    Concat([k \in 1..Len(out) |->
               IF IsTextDelta(out[k]) THEN out[k].delta.text ELSE <<>>])

\* The events the loop read: those up to the first terminal event.
ReadInLoop(p) ==
    p \in 1..Len(inp) /\ \A q \in 1..(p - 1) : inp[q].type # "response.completed"

IsAdded(ev, t) ==
    ev.type = "response.output_item.added" /\ ev.item.id = t

IsDone(ev, t) ==
    ev.type = "response.output_item.done" /\ ev.item.id = t

Announced(t) == \E p \in 1..Len(inp) : ReadInLoop(p) /\ IsAdded(inp[p], t)

AddedAt(t) == CHOOSE p \in 1..Len(inp) : IsAdded(inp[p], t)

IsArgsDelta(ev, t) ==
    /\ ev.type = "response.function_call_arguments.delta"
    /\ ev.item_id = t
    /\ ev.has_delta

IsArgsDone(ev, t) ==
    /\ ev.type = "response.function_call_arguments.done"
    /\ ev.item_id = t
    /\ ev.has_args

\* The events for t that count: read by the loop after t was announced.
Counts(p, t) == ReadInLoop(p) /\ Announced(t) /\ AddedAt(t) < p

\* What the arguments deltas for t spell.
SentArgs(t) ==
    Concat([p \in 1..Len(inp) |->
               IF Counts(p, t) /\ IsArgsDelta(inp[p], t)
               THEN inp[p].delta ELSE <<>>])

DonePositions(t) ==
    {p \in 1..Len(inp) : Counts(p, t) /\ IsArgsDone(inp[p], t)}

\* The arguments string of t's done event ("" without one).
DoneArgs(t) ==
    IF DonePositions(t) = {} THEN <<>>
    ELSE inp[CHOOSE p \in DonePositions(t) :
                \A q \in DonePositions(t) : p <= q].arguments

ExpectedJson(t) == IF SentArgs(t) # <<>> THEN SentArgs(t) ELSE DoneArgs(t)

\* The deltas of t come before its done event.
DeltasBeforeDone(t) ==
    \A p \in DonePositions(t), q \in 1..Len(inp) :
        Counts(q, t) /\ IsArgsDelta(inp[q], t) => q < p

IsTextInput(p) ==
    /\ ReadInLoop(p)
    /\ inp[p].type \in {"response.output_text.delta", "response.refusal.delta"}
    /\ inp[p].delta # <<>>

\* The block that was open when inp[p] was read.
OpenBefore(p) ==
    {i \in Starts : src[i] < p /\ \A k \in StopsOf(i) : p <= src[k]}

\* The tool blocks open when inp[p] was read: the text of inp[p] was held.
ToolOpenBefore(p) == OpenBefore(p) \cap ToolStarts

HeldAt(p) == IsTextInput(p) /\ ToolOpenBefore(p) # {}

\* The text received, and the text received while a tool block was active.
ReceivedText ==
    Concat([p \in 1..Len(inp) |->
               IF IsTextInput(p) THEN inp[p].delta ELSE <<>>])

HeldText ==
    Concat([p \in 1..Len(inp) |-> IF HeldAt(p) THEN inp[p].delta ELSE <<>>])

CharsOf(s) == {s[i] : i \in 1..Len(s)}

IsHeldChar(ch) == ch \in CharsOf(HeldText)

\* Where the text of inp[p] was emitted (payloads are told apart by their
\* character).
EmittedAt(p) ==
    {k \in 1..Len(out) : IsTextDelta(out[k]) /\ out[k].delta.text = inp[p].delta}

----------------------------------------------------------------------------
\* C2: every content_block_delta is emitted while a block is open, carries
\* the index of that block and has the delta type of the block's type.
C2_DeltaInsideItsBlock ==
    \A k \in Deltas :
        \E i \in OpenAt(k) :
            /\ out[k].index = out[i].index
            /\ out[k].delta.type = DeltaTypeOf(out[i].content_block.type)

----------------------------------------------------------------------------
\* C3: tool_use blocks are emitted in the order in which their items were
\* added, and when message_stop has been emitted, every function-call tool
\* that became the head of tool_queue (it is the head, or it had a block) has
\* had all its buffered argument text emitted.
C3_ToolOrderAndBufferedDeltas ==
    /\ \A i \in ToolStarts, j \in ToolStarts :
          i < j => AddedAt(ItemOfStart(i)) <= AddedAt(ItemOfStart(j))
    /\ Positions("message_stop") # {} =>
          \A t \in FcItems \cap DOMAIN st.tool_calls :
              \/ StartsOfItem(t) # {}
              \/ st.tool_queue # <<>> /\ st.tool_queue[1] = t
              => EmittedJson(t) = st.tool_calls[t].partial_json

----------------------------------------------------------------------------
\* C4: when the run is over, the input_json_delta payloads emitted for a
\* function-call item spell what its arguments deltas spelled, or the
\* arguments of its done event when no delta was sent.
C4_ToolJsonFaithful ==
    Finished =>
        \A t \in FcItems :
            Announced(t) /\ DeltasBeforeDone(t)
            => EmittedJson(t) = ExpectedJson(t)

----------------------------------------------------------------------------
\* C5: when the run is over, the text received while a tool block was active
\* has been emitted as text_delta events, in arrival order, each after the
\* stop of that tool block.
C5_HeldTextEmitted ==
    Finished =>
        /\ SelectSeq(EmittedText, IsHeldChar) = HeldText
        /\ \A p \in 1..Len(inp) :
              HeldAt(p) =>
                  \A i \in ToolOpenBefore(p) :
                      \E k \in EmittedAt(p), j \in StopsOf(i) : j < k

----------------------------------------------------------------------------
\* C6: the three phases of text around a tool block.

TextInputs == {p \in 1..Len(inp) : IsTextInput(p)}

ToolStartsBefore(p) == {i \in ToolStarts : src[i] < p}

LastToolStartBefore(p) ==
    CHOOSE i \in ToolStartsBefore(p) : \A j \in ToolStartsBefore(p) : j <= i

\* T1: inp[p] was read before any tool block opened.
BeforeTool(p) == ToolStartsBefore(p) = {}

\* T3: inp[p] was read with no tool block active, after the output_item.done
\* of the tool whose block opened last.
AfterToolDone(p) ==
    /\ ~HeldAt(p)
    /\ ToolStartsBefore(p) # {}
    /\ LET i == LastToolStartBefore(p)
       IN  \E q \in src[i]..(p - 1) : IsDone(inp[q], ItemOfStart(i))

\* T2 and the tool's output_item.done follows.
HeldUntilDone(p) ==
    /\ HeldAt(p)
    /\ \A i \in ToolOpenBefore(p) :
          \E q \in (p + 1)..Len(inp) :
              ReadInLoop(q) /\ IsDone(inp[q], ItemOfStart(i))

ThreePhases ==
    \A p \in TextInputs : BeforeTool(p) \/ HeldUntilDone(p) \/ AfterToolDone(p)

\* C6: if every text delta is received before any tool block opens (T1),
\* while a tool block is active whose output_item.done follows (T2), or
\* after the output_item.done of the tool opened last (T3), then the emitted
\* text_delta events spell the received text in order, and each text of T2 is
\* emitted once, after the content_block_stop of its tool block, in a text
\* block that started after it and has a greater index.
C6_TextAcrossTool ==
    ThreePhases =>
        /\ EmittedText = ReceivedText
        /\ \A p \in TextInputs : \A i \in ToolOpenBefore(p) :
              /\ Cardinality(EmittedAt(p)) = 1
              /\ \A k \in EmittedAt(p) :
                    /\ \E j \in StopsOf(i) : j < k
                    /\ \E b \in OpenAt(k) :
                          /\ i < b
                          /\ out[b].content_block.type = "text"
                          /\ out[b].index = out[k].index
                          /\ out[b].index > out[i].index

\* A finished run with text in each of the three phases.
C6_Witness ==
    /\ Finished
    /\ ThreePhases
    /\ \E p1 \in TextInputs, p2 \in TextInputs, p3 \in TextInputs :
          BeforeTool(p1) /\ HeldUntilDone(p2) /\ AfterToolDone(p3)

----------------------------------------------------------------------------
\* The grammar of a complete stream: one message_start, first; one
\* message_delta and one message_stop, last.
CompleteStream ==
    /\ Len(out) >= 3
    /\ Positions("message_start") = {1}
    /\ Positions("message_delta") = {Len(out) - 1}
    /\ Positions("message_stop") = {Len(out)}

\* C7 as stated: the emitted stream of every finished run is complete.
C7_AlwaysCompleteStream == Finished => CompleteStream

\* C7, amended: the emitted stream of a finished run is complete, or it is
\* empty when the input ended without a terminal event before message_start
\* was emitted.
C7_CompleteOrEmptyStream ==
    Finished =>
        IF st.started THEN CompleteStream
        ELSE out = <<>> /\ pc = "exhausted"

\* A finished run with a complete stream that has content blocks.
C7_Witness == Finished /\ CompleteStream /\ Cardinality(Starts) >= 2

----------------------------------------------------------------------------
\* C8: message_start is emitted at most once and is the first event emitted,
\* and nothing follows message_stop.
C8_StartFirstStopLast ==
    /\ out # <<>> => out[1].type = "message_start"
    /\ Cardinality(Positions("message_start")) <= 1
    /\ \A k \in Positions("message_stop") : k = Len(out)
    /\ st.started <=> out # <<>>

\* A stream that ended with message_stop after content, with upstream still
\* sending.
C8_Witness ==
    /\ pc = "returned"
    /\ Starts # {}
    /\ inp[Len(inp)].type # "response.completed"

----------------------------------------------------------------------------
TerminalRead == \E p \in 1..Len(inp) : inp[p].type = "response.completed"

\* C9: once a terminal event has been read, no later step emits anything or
\* changes the stream state.
C9_NothingAfterTerminal ==
    [][TerminalRead => out' = out /\ st' = st]_vars

\* A second terminal event arrived after the first.
C9_Witness ==
    /\ Len(inp) >= 2
    /\ inp[Len(inp)].type = "response.completed"
    /\ \E p \in 1..(Len(inp) - 1) : inp[p].type = "response.completed"
    /\ out[Len(out)].type = "message_stop"

----------------------------------------------------------------------------
\* C10: a tool block is opened only for the head of tool_queue and the entry
\* removed at its close is its own item, so, entries being added at the tail
\* only, the item of the active tool block is the head of tool_queue.
C10_ActiveToolIsQueueHead ==
    IsToolBlock(st.active_block) =>
        st.tool_queue # <<>> /\ st.tool_queue[1] = st.active_block[2]

----------------------------------------------------------------------------
\* C11: in every reachable state, emitted_chars of every tool-call record
\* is at most the length of its partial_json.
C11_EmittedCharsBounded ==
    \A t \in DOMAIN st.tool_calls :
        st.tool_calls[t].emitted_chars <= Len(st.tool_calls[t].partial_json)

----------------------------------------------------------------------------
BlockTypes == {out[i].content_block.type : i \in Starts}

\* C12: the indices of the content_block_start events are 0, 1, 2, ... in
\* emission order: each start carries the number of starts before it, and
\* content_index is the number of blocks started.
C12_IndicesContiguous ==
    /\ \A i \in Starts : out[i].index = Cardinality({j \in Starts : j < i})
    /\ st.content_index = Cardinality(Starts)

\* A finished stream with a text, a tool_use and a thinking block.
C12_Witness ==
    /\ Finished
    /\ BlockTypes = {"text", "tool_use", "thinking"}

----------------------------------------------------------------------------
\* The custom_tool_call_input.done events read for t after t was announced.
CustomDonePositions(t) ==
    {p \in 1..Len(inp) :
        /\ Counts(p, t)
        /\ inp[p].type = "response.custom_tool_call_input.done"
        /\ inp[p].item_id = t}

\* C13: once the one custom_tool_call_input.done of a custom tool has been
\* read and has opened the tool's block, the input_json_delta payloads of
\* that block spell the wrapped JSON text {"input": raw} exactly once.
C13_CustomInputEmittedOnce ==
    \A t \in CtItems \cap DOMAIN st.tool_calls :
        /\ Cardinality(CustomDonePositions(t)) = 1
        /\ \E i \in StartsOfItem(t) :
              \A p \in CustomDonePositions(t) : src[i] = p
        => EmittedJson(t) = st.tool_calls[t].partial_json

----------------------------------------------------------------------------
\* The terminal event the loop read, when there is one.
TerminalPosition ==
    CHOOSE p \in 1..Len(inp) : ReadInLoop(p) /\ inp[p].type = "response.completed"

\* The stop reason the response of a terminal event calls for.
ExpectedStopReason(resp) ==
    IF resp.incomplete_reason = "max_tokens" THEN "max_tokens"
    ELSE IF resp.last_output_type \in {"function_call", "custom_tool_call"}
         THEN "tool_use"
         ELSE "end_turn"

\* C14: the message_delta a terminal event emits carries the stop reason
\* its response calls for: max_tokens, else tool_use, else end_turn.
C14_StopReasonDerivation ==
    pc = "returned" =>
        \A k \in Positions("message_delta") :
            out[k].delta.stop_reason
                = ExpectedStopReason(inp[TerminalPosition].response)

----------------------------------------------------------------------------
\* The events emitted after the input ended.
EndOfStreamTail == {k \in 1..Len(out) : src[k] = Len(inp) + 1}

\* message_start was emitted while the input was read.
StartedWhileReading ==
    \E k \in Positions("message_start") : src[k] <= Len(inp)

\* C15: when the input ends without a terminal event, then, if
\* message_start was emitted before, every block is stopped and the stream
\* ends with message_delta of stop_reason end_turn and empty usage and
\* message_stop, emitted after the input ended, with nothing but the stop of
\* the active block and the thinking block before them; and if message_start
\* was never emitted, nothing is emitted.
C15_EndOfStreamClosure ==
    pc = "exhausted" =>
        IF ~StartedWhileReading THEN out = <<>>
        ELSE /\ Len(out) >= 3
             /\ out[Len(out)] = [type |-> "message_stop"]
             /\ out[Len(out) - 1] = MessageDeltaEvent("end_turn", <<>>)
             /\ {Len(out) - 1, Len(out)} \subseteq EndOfStreamTail
             /\ \A i \in Starts : \E k \in StopsOf(i) : k < Len(out) - 1
             /\ \A k \in EndOfStreamTail :
                   k < Len(out) - 1 =>
                       \/ out[k].type = "content_block_stop"
                       \/ /\ out[k].type = "content_block_start"
                          /\ out[k].content_block.type = "thinking"
                       \/ /\ out[k].type = "content_block_delta"
                          /\ out[k].delta.type = "thinking_delta"

\* The input ended while a block was active: its stop is followed by
\* message_delta.
C15_Witness ==
    /\ pc = "exhausted"
    /\ \E k \in Stops \cap EndOfStreamTail :
          k = Len(out) - 2 /\ out[k + 1].type = "message_delta"

----------------------------------------------------------------------------
\* The item the input event at position p names.
ItemNamedAt(p) ==
    IF "item_id" \in DOMAIN inp[p] THEN inp[p].item_id ELSE inp[p].item.id

\* C16: a tool_use block starts with content_block_start of type tool_use
\* carrying the call_id and the name announced for the item of the event
\* that opened it and input {}, immediately followed by an input_json_delta
\* of the same index with an empty partial_json.
C16_ToolBlockOpening ==
    \A i \in ToolStarts :
        /\ out[i].content_block =
              [type |-> "tool_use",
               id |-> inp[AddedAt(ItemNamedAt(src[i]))].item.call_id,
               name |-> inp[AddedAt(ItemNamedAt(src[i]))].item.name,
               input |-> <<>>]
        /\ i < Len(out)
        /\ out[i + 1] = InputJsonDeltaEvent(out[i].index, <<>>)

\* A tool_use block whose empty delta is followed by the arguments.
C16_Witness ==
    \E i \in ToolStarts :
        /\ i + 2 <= Len(out)
        /\ IsInputJsonDelta(out[i + 2])
        /\ out[i + 2].index = out[i].index
        /\ out[i + 2].delta.partial_json # <<>>

----------------------------------------------------------------------------
ThinkingStarts == {i \in Starts : out[i].content_block.type = "thinking"}

ThinkingDeltas ==
    {k \in Deltas : out[k].delta.type = "thinking_delta"}

\* The emitted stream has exactly one thinking block, of the given text:
\* start, one thinking_delta and stop in a row, after every other block was
\* stopped and right before message_delta.
OneThinkingBlock(text) ==
    \E i \in ThinkingStarts :
        /\ ThinkingStarts = {i}
        /\ ThinkingDeltas = {i + 1}
        /\ i + 3 <= Len(out)
        /\ out[i + 1].index = out[i].index
        /\ out[i + 1].delta.thinking = text
        /\ out[i + 2] = [type |-> "content_block_stop", index |-> out[i].index]
        /\ out[i + 3].type = "message_delta"
        /\ \A j \in Starts \ {i} : \E k \in StopsOf(j) : k < i

\* The stream accumulated a reasoning summary that is not blank.
SummaryAccumulated ==
    keep_reasoning_summary /\ Strip(st.reasoning_summary) # <<>>

\* C17 as stated: every finished stream that accumulated a non-blank
\* summary has exactly one thinking block, carrying the whole summary.
C17_ThinkingBlockForEverySummary ==
    Finished /\ SummaryAccumulated => OneThinkingBlock(st.reasoning_summary)

\* C17, amended: a finished stream that accumulated a non-blank summary has
\* exactly one thinking block, carrying the summary stripped of the blanks
\* around it, unless the input ended before message_start was emitted, when
\* nothing is emitted; and no thinking block is emitted before the end of
\* the stream, nor more than one.
C17_ThinkingBlockOnce ==
    /\ Finished /\ SummaryAccumulated =>
           IF st.started THEN OneThinkingBlock(Strip(st.reasoning_summary))
           ELSE out = <<>> /\ pc = "exhausted"
    /\ ~Finished => ThinkingStarts = {}
    /\ Cardinality(ThinkingStarts) <= 1

\* A finished stream with another block before its thinking block, whose
\* summary had a blank stripped.
C17_Witness ==
    /\ Finished
    /\ SummaryAccumulated
    /\ Strip(st.reasoning_summary) # st.reasoning_summary
    /\ ThinkingStarts # {}
    /\ Cardinality(Starts) >= 2

----------------------------------------------------------------------------
\* This step reads a response.reasoning* event.
ReadsReasoningEvent ==
    /\ pc = "loop"
    /\ Len(inp') = Len(inp) + 1
    /\ inp'[Len(inp')].type \in {"response.reasoning_summary",
                                 "response.reasoning"}

\* C18: with keep_reasoning_summary off, the emitted stream never has a
\* thinking block or a thinking_delta, and a step that reads a
\* response.reasoning* event emits nothing and leaves the stream state as
\* it was.
C18_ReasoningDroppedWhenOff ==
    /\ [](~keep_reasoning_summary =>
             ThinkingStarts = {} /\ ThinkingDeltas = {})
    /\ [][~keep_reasoning_summary /\ ReadsReasoningEvent
             => out' = out /\ st' = st]_vars

\* With the flag off, a stream that read a reasoning summary after its text
\* began and finished.
C18_Witness ==
    /\ ~keep_reasoning_summary
    /\ Finished
    /\ Starts # {}
    /\ \E p \in 2..Len(inp) :
          /\ inp[p].type = "response.reasoning_summary"
          /\ inp[p - 1].type = "response.output_text.delta"
          /\ inp[p - 1].delta # <<>>

----------------------------------------------------------------------------
ToolEventTypes ==
    {"response.function_call_arguments.delta",
     "response.function_call_arguments.done",
     "response.custom_tool_call_input.delta",
     "response.custom_tool_call_input.done"}

\* The event at position p of the run is a tool event for an item that
\* tool_calls s does not hold.
UnannouncedIn(run, p, s) ==
    /\ run[p].type \in ToolEventTypes
    /\ run[p].item_id \notin DOMAIN s.tool_calls

\* C19: a step that reads an arguments or custom input event (delta or
\* done) for an item that no output_item.added announced emits nothing and
\* leaves the stream state as it was.
C19_UnannouncedToolEventDropped ==
    [][pc = "loop" /\ Len(inp') = Len(inp) + 1
         /\ UnannouncedIn(inp', Len(inp'), st)
         => out' = out /\ st' = st]_vars

\* Another item was announced, and the event just read, for an item that
\* was not, did not even start the message.
C19_Witness ==
    /\ pc = "loop"
    /\ Len(inp) >= 2
    /\ UnannouncedIn(inp, Len(inp), st)
    /\ st.tool_queue # <<>>
    /\ ~st.started
    /\ out = <<>>

----------------------------------------------------------------------------
\* The step reads an output_item.done event.
ReadsItemDone ==
    /\ pc = "loop"
    /\ Len(inp') = Len(inp) + 1
    /\ inp'[Len(inp')].type = "response.output_item.done"

\* C35: an output_item.done event closes only the block of the item it
\* names: read while the tool block of another item is active (the event
\* naming a message or another tool), it leaves that block open and its
\* item at the head of tool_queue.
C35_ItemDoneClosesOwnBlockOnly ==
    [][ReadsItemDone
         /\ IsToolBlock(st.active_block)
         /\ st.active_block # ToolBlock(inp'[Len(inp')].item.id)
         => /\ st'.active_block = st.active_block
            /\ st'.tool_queue = st.tool_queue
            /\ st.tool_queue # <<>>
            /\ st.tool_queue[1] = st.active_block[2]]_vars

----------------------------------------------------------------------------
\* C36: every tool item gets at most one tool_use block: once its block was
\* closed, no later event for the item opens another one with its id.
C36_OneToolBlockPerItem ==
    \A t \in Items : Cardinality(StartsOfItem(t)) <= 1

----------------------------------------------------------------------------
\* C37: every message_delta carries a stop_reason that is max_tokens,
\* tool_use or end_turn, never null, whatever the terminal event (its
\* response missing or not a mapping included) and when the input ends.
C37_StopReasonNeverNull ==
    \A k \in Positions("message_delta") :
        out[k].delta.stop_reason \in {"max_tokens", "tool_use", "end_turn"}

----------------------------------------------------------------------------
\* The HTTP surface: JSON values.  A mapping is a function on its keys; the
\* model map, whose order counts, is a sequence of entries.

JNone == [t |-> "null"]
JStr(s) == [t |-> "str", s |-> s]
JBool(b) == [t |-> "bool", b |-> b]
JInt(n) == [t |-> "int", n |-> n]
JDict(d) == [t |-> "dict", d |-> d]
JList(l) == [t |-> "list", l |-> l]

\* bool(v) of Python.
Truthy(v) ==
    CASE v.t = "null" -> FALSE
      [] v.t = "str" -> v.s # <<>>
      [] v.t = "bool" -> v.b
      [] v.t = "int" -> v.n # 0
      [] v.t = "dict" -> DOMAIN v.d # {}
      [] v.t = "list" -> v.l # <<>>

\* d.get(k)
Get(d, k) == IF k \in DOMAIN d THEN d[k] ELSE JNone

\* d[k] = v
Put(d, k, v) == (k :> v) @@ d

\* {x: v for x, v in d.items() if x != k}
Without(d, k) == [x \in DOMAIN d \ {k} |-> d[x]]

\* base.update(updates): the merge without its recursion.
_deep_merge_inplace_shallow(base, updates) ==
    [k \in DOMAIN base \cup DOMAIN updates |->
        IF k \in DOMAIN updates THEN updates[k] ELSE base[k]]

\* _deep_merge_inplace(base, updates), as the mapping base becomes.
RECURSIVE _deep_merge_inplace(_, _)
_deep_merge_inplace(base, updates) ==
    [k \in DOMAIN base \cup DOMAIN updates |->
        IF k \notin DOMAIN updates THEN base[k]
        ELSE IF updates[k].t = "dict" /\ Get(base, k).t = "dict"
             THEN JDict(_deep_merge_inplace(base[k].d, updates[k].d))
             ELSE updates[k]]

----------------------------------------------------------------------------
\* json.loads, for texts of objects (with keys of one character), arrays,
\* strings without escapes, natural numbers, true, false and null.  A parse
\* is whether it succeeded, the value and the rest of the text.

ParseFailed == [ok |-> FALSE, value |-> JNone, rest |-> <<>>]

Parsed(value, rest) == [ok |-> TRUE, value |-> value, rest |-> rest]

Digits == <<"0", "1", "2", "3", "4", "5", "6", "7", "8", "9">>

DigitValue(ch) == (CHOOSE i \in 1..10 : Digits[i] = ch) - 1

IsDigit(ch) == \E i \in 1..10 : Digits[i] = ch

\* s starts with the characters p.
StartsWith(s, p) == Len(s) >= Len(p) /\ SubSeq(s, 1, Len(p)) = p

\* The digits at the head of s, as a number, n being the number read so far.
RECURSIVE ParseDigits(_, _)
ParseDigits(s, n) ==
    IF s # <<>> /\ IsDigit(Head(s))
    THEN ParseDigits(Tail(s), 10 * n + DigitValue(Head(s)))
    ELSE Parsed(JInt(n), s)

\* The characters up to the closing quote, acc being those read so far.
RECURSIVE ParseString(_, _)
ParseString(s, acc) ==
    IF s = <<>> \/ Head(s) \in {"\\", "\n"} THEN ParseFailed
    ELSE IF Head(s) = "\"" THEN Parsed(JStr(acc), Tail(s))
    ELSE ParseString(Tail(s), Append(acc, Head(s)))

RECURSIVE ParseValue(_)
RECURSIVE ParseMembers(_, _)
RECURSIVE ParseElements(_, _)

\* The key of a member: a string, read when the text starts with a quote.
ParseKey(s) ==
    IF s # <<>> /\ Head(s) = "\"" THEN ParseString(Tail(s), <<>>)
    ELSE ParseFailed

\* The value of a member after its key and the whitespace behind it: a
\* colon, then a value; the key is one character.
ParseMemberValue(key, colon) ==
    IF key.ok /\ Len(key.value.s) = 1 /\ colon # <<>> /\ Head(colon) = ":"
    THEN ParseValue(Tail(colon)) ELSE ParseFailed

\* An object after one more member, whose value was read up to `after`: a
\* comma and more members, or the closing brace.
MembersAfter(acc, k, val, after) ==
    IF ~val.ok \/ after = <<>> THEN ParseFailed
    ELSE IF Head(after) = ","
    THEN ParseMembers(Tail(after), Put(acc, k, val.value))
    ELSE IF Head(after) = "}"
    THEN Parsed(JDict(Put(acc, k, val.value)), Tail(after))
    ELSE ParseFailed

MemberOf(acc, key, val) ==
    MembersAfter(acc, IF key.ok /\ key.value.s # <<>> THEN key.value.s[1]
                      ELSE "", val, LStrip(val.rest))

MembersFrom(acc, key) ==
    MemberOf(acc, key, ParseMemberValue(key, LStrip(key.rest)))

\* The members of an object after its brace or a comma, acc being the
\* mapping so far.
ParseMembers(s0, acc) == MembersFrom(acc, ParseKey(LStrip(s0)))

\* An array after one more element, read up to `after`: a comma and more
\* elements, or the closing bracket.
ElementsAfter(acc, val, after) ==
    IF ~val.ok \/ after = <<>> THEN ParseFailed
    ELSE IF Head(after) = ","
    THEN ParseElements(Tail(after), Append(acc, val.value))
    ELSE IF Head(after) = "]"
    THEN Parsed(JList(Append(acc, val.value)), Tail(after))
    ELSE ParseFailed

ElementOf(acc, val) == ElementsAfter(acc, val, LStrip(val.rest))

\* The elements of an array after its bracket or a comma, acc being the
\* list so far.
ParseElements(s0, acc) == ElementOf(acc, ParseValue(s0))

\* The value at the head of the text s, inner being what follows its first
\* character and whitespace.
ValueOfText(s, inner) ==
    IF s = <<>> THEN ParseFailed
    ELSE IF Head(s) = "{"
    THEN IF inner # <<>> /\ Head(inner) = "}"
         THEN Parsed(JDict(<<>>), Tail(inner))
         ELSE ParseMembers(inner, <<>>)
    ELSE IF Head(s) = "["
    THEN IF inner # <<>> /\ Head(inner) = "]"
         THEN Parsed(JList(<<>>), Tail(inner))
         ELSE ParseElements(inner, <<>>)
    ELSE IF Head(s) = "\"" THEN ParseString(Tail(s), <<>>)
    ELSE IF IsDigit(Head(s))
    THEN IF Head(s) = "0" /\ Len(s) > 1 /\ IsDigit(s[2]) THEN ParseFailed
         ELSE ParseDigits(s, 0)
    ELSE IF StartsWith(s, <<"t", "r", "u", "e">>)
    THEN Parsed(JBool(TRUE), SubSeq(s, 5, Len(s)))
    ELSE IF StartsWith(s, <<"f", "a", "l", "s", "e">>)
    THEN Parsed(JBool(FALSE), SubSeq(s, 6, Len(s)))
    ELSE IF StartsWith(s, <<"n", "u", "l", "l">>)
    THEN Parsed(JNone, SubSeq(s, 5, Len(s)))
    ELSE ParseFailed

ValueAt(s) == ValueOfText(s, IF s = <<>> THEN <<>> ELSE LStrip(Tail(s)))

\* The value at the head of the text, after whitespace.
ParseValue(s0) == ValueAt(LStrip(s0))

\* What json.loads makes of a parse: the value when the text held one
\* value and whitespace, the failure otherwise.
LoadsResult(r) ==
    IF r.ok /\ LStrip(r.rest) = <<>>
    THEN [ok |-> TRUE, value |-> r.value]
    ELSE [ok |-> FALSE, value |-> JNone]

\* json.loads(s): whether it parses, and the value.
json_loads(s) ==
    CHOOSE loaded \in {LoadsResult(r) : r \in {ParseValue(text) : text \in {s}}} :
        TRUE

----------------------------------------------------------------------------
\* The model map.

\* fnmatch.fnmatchcase(name, pat) for patterns of literals, "*" and "?".
RECURSIVE fnmatchcase(_, _)
fnmatchcase(name, pat) ==
    IF pat = <<>> THEN name = <<>>
    ELSE IF Head(pat) = "*"
         THEN \/ fnmatchcase(name, Tail(pat))
              \/ name # <<>> /\ fnmatchcase(Tail(name), pat)
         ELSE /\ name # <<>>
              /\ Head(pat) = "?" \/ Head(pat) = Head(name)
              /\ fnmatchcase(Tail(name), Tail(pat))

\* The entries of a parsed model map file that _get_model_map keeps: a
\* non-empty string key with a non-empty string or a non-empty mapping.
KeptEntries(entries) ==
    SelectSeq(entries,
              LAMBDA e : e.k # <<>> /\ e.v.t \in {"str", "dict"} /\ Truthy(e.v))

\* _get_model_map() reading the file at every call.
_get_model_map_uncached(cache, file) ==
    IF ~file.exists THEN <<>>
    ELSE KeptEntries(file.entries)

\* _get_model_map(): the mapping returned, the cache being cache and the
\* file being file (exists, entries).
_get_model_map(cache, file) ==
    IF cache # NoneRec THEN cache.map
    ELSE IF ~file.exists THEN <<>>
         ELSE KeptEntries(file.entries)

\* The positions of key k in the mapping.
KeyPositions(mapping, k) == {i \in 1..Len(mapping) : mapping[i].k = k}

\* mapping[k], for a key of the mapping.
ValueOf(mapping, k) == mapping[CHOOSE i \in KeyPositions(mapping, k) : TRUE].v

\* _normalize_model_map_value(requested_model, value)
_normalize_model_map_value(requested_model, value) ==
    IF value.t = "str" /\ value.s # <<>>
    THEN [model |-> JStr(value.s), extra |-> <<>>]
    ELSE IF value.t = "dict"
         THEN LET out_model == Get(value.d, "model") IN
              [model |-> IF out_model.t = "str" /\ out_model.s # <<>>
                         THEN out_model ELSE JStr(requested_model),
               extra |-> Without(value.d, "model")]
         ELSE [model |-> JStr(requested_model), extra |-> <<>>]

\* The score of a wildcard key: (non-wildcard characters, length).
Score(k) == <<Len(SelectSeq(k, LAMBDA ch : ch \notin {"*", "?"})), Len(k)>>

\* score > best_score on tuples.
ScoreGreater(a, b) == a[1] > b[1] \/ (a[1] = b[1] /\ a[2] > b[2])

\* The loop over mapping.keys() keeping the first wildcard key that
\* matches, whatever its score.
RECURSIVE BestWildcardFirstMatch(_, _, _, _, _)
BestWildcardFirstMatch(mapping, model, i, best_key, best_score) ==
    IF i > Len(mapping) THEN best_key
    ELSE LET k == mapping[i].k IN
         IF /\ k # <<>>
            /\ k # <<"*">>
            /\ \E j \in 1..Len(k) : k[j] \in {"*", "?"}
            /\ fnmatchcase(model, k)
            /\ best_key = <<>>
         THEN BestWildcardFirstMatch(mapping, model, i + 1, k, Score(k))
         ELSE BestWildcardFirstMatch(mapping, model, i + 1, best_key,
                                     best_score)

\* The loop over mapping.keys() from position i on: the best wildcard key
\* (<<>> for None) with best_key and best_score so far.
RECURSIVE BestWildcard(_, _, _, _, _)
BestWildcard(mapping, model, i, best_key, best_score) ==
    IF i > Len(mapping) THEN best_key
    ELSE LET k == mapping[i].k IN
         IF /\ k # <<>>
            /\ k # <<"*">>
            /\ \E j \in 1..Len(k) : k[j] \in {"*", "?"}
            /\ fnmatchcase(model, k)
            /\ ScoreGreater(Score(k), best_score)
         THEN BestWildcard(mapping, model, i + 1, k, Score(k))
         ELSE BestWildcard(mapping, model, i + 1, best_key, best_score)

\* _map_model_and_extras with the catch-all looked up before the wildcard
\* keys.
_map_model_and_extras_catch_all_first(model, mapping) ==
    IF ~Truthy(model) THEN [model |-> JNone, extra |-> <<>>]
    ELSE LET best_key == BestWildcard(mapping, model.s, 1, <<>>, <<-1, -1>>) IN
         IF KeyPositions(mapping, model.s) # {}
         THEN _normalize_model_map_value(model.s, ValueOf(mapping, model.s))
         ELSE IF KeyPositions(mapping, <<"*">>) # {}
         THEN _normalize_model_map_value(model.s, ValueOf(mapping, <<"*">>))
         ELSE IF best_key # <<>>
         THEN _normalize_model_map_value(model.s, ValueOf(mapping, best_key))
         ELSE [model |-> model, extra |-> <<>>]

\* _map_model_and_extras(model), model being None (JNone) or a string, with
\* the mapping _get_model_map() returns.
_map_model_and_extras(model, mapping) ==
    IF ~Truthy(model) THEN [model |-> JNone, extra |-> <<>>]
    ELSE LET best_key == BestWildcard(mapping, model.s, 1, <<>>, <<-1, -1>>) IN
         IF KeyPositions(mapping, model.s) # {}
         THEN _normalize_model_map_value(model.s, ValueOf(mapping, model.s))
         ELSE IF best_key # <<>>
         THEN _normalize_model_map_value(model.s, ValueOf(mapping, best_key))
         ELSE IF KeyPositions(mapping, <<"*">>) # {}
         THEN _normalize_model_map_value(model.s, ValueOf(mapping, <<"*">>))
         ELSE [model |-> model, extra |-> <<>>]

----------------------------------------------------------------------------
\* The request transform (anthropic_to_openai.py), for messages of text.

S_user == <<"u", "s", "e", "r">>
S_assistant == <<"a", "s", "s", "i", "s", "t", "a", "n", "t">>
S_text == <<"t", "e", "x", "t">>
S_input_text == <<"i", "n", "p", "u", "t", "_", "t", "e", "x", "t">>
S_output_text == <<"o", "u", "t", "p", "u", "t", "_", "t", "e", "x", "t">>
S_message == <<"m", "e", "s", "s", "a", "g", "e">>
S_function == <<"f", "u", "n", "c", "t", "i", "o", "n">>
S_tool == <<"t", "o", "o", "l">>
S_system == <<"s", "y", "s", "t", "e", "m">>
S_reasoning == <<"r", "e", "a", "s", "o", "n", "i", "n", "g">>
S_function_call == <<"f", "u", "n", "c", "t", "i", "o", "n", "_", "c", "a", "l", "l">>
S_custom_tool_call == <<"c", "u", "s", "t", "o", "m", "_", "t", "o", "o", "l", "_", "c", "a", "l", "l">>
S_function_call_output == <<"f", "u", "n", "c", "t", "i", "o", "n", "_", "c", "a", "l", "l", "_", "o", "u", "t", "p", "u", "t">>
S_tool_use == <<"t", "o", "o", "l", "_", "u", "s", "e">>
S_tool_result == <<"t", "o", "o", "l", "_", "r", "e", "s", "u", "l", "t">>
S_thinking == <<"t", "h", "i", "n", "k", "i", "n", "g">>
S_None == <<"N", "o", "n", "e">>
S_raw == <<"_", "r", "a", "w">>
S_openai_reasoning == <<"[", "o", "p", "e", "n", "a", "i", "_", "r", "e", "a", "s", "o", "n", "i", "n", "g", "]">>
S_max_tokens == <<"m", "a", "x", "_", "t", "o", "k", "e", "n", "s">>
S_end_turn == <<"e", "n", "d", "_", "t", "u", "r", "n">>
S_unknown == <<"u", "n", "k", "n", "o", "w", "n">>
S_empty_object == <<"{", "}">>

\* _normalize_anthropic_content(content), content being None, a string or
\* a list.
_normalize_anthropic_content(content) ==
    CASE content.t = "null" -> <<>>
      [] content.t = "str" ->
            <<JDict([type |-> JStr(S_text), text |-> content])>>
      [] content.t = "list" ->
            SelectSeq(content.l, LAMBDA c : c.t = "dict")

\* str(block.get("text") or ""), the text being None or a string.
TextOf(block) ==
    LET text == Get(block.d, "text")
    IN  IF Truthy(text) THEN text ELSE JStr(<<>>)

\* "".join of the texts of the text blocks of a list.
RECURSIVE JoinTextBlocks(_)
JoinTextBlocks(blocks) ==
    IF blocks = <<>> THEN <<>>
    ELSE (IF /\ Head(blocks).t = "dict"
             /\ Get(Head(blocks).d, "type") = JStr(S_text)
          THEN TextOf(Head(blocks)).s ELSE <<>>)
             \o JoinTextBlocks(Tail(blocks))

\* The characters of the keys that json.dumps writes.
KeyText ==
    [k \in {"a", "type"} |->
        IF k = "a" THEN <<"a">> ELSE <<"t", "y", "p", "e">>]

\* json.dumps(v, ensure_ascii=True) of None, a boolean, a digit, a string
\* without escapes, a list, or a mapping of at most one key.
RECURSIVE json_dumps(_)
RECURSIVE JoinDumps(_)

JoinDumps(l) ==
    IF l = <<>> THEN <<>>
    ELSE IF Len(l) = 1 THEN json_dumps(l[1])
    ELSE json_dumps(l[1]) \o <<",", " ">> \o JoinDumps(Tail(l))

json_dumps(v) ==
    CASE v.t = "null" -> <<"n", "u", "l", "l">>
      [] v.t = "bool" /\ v.b -> <<"t", "r", "u", "e">>
      [] v.t = "bool" /\ ~v.b -> <<"f", "a", "l", "s", "e">>
      [] v.t = "int" /\ v.n \in 0..9 -> <<Digits[v.n + 1]>>
      [] v.t = "str" -> <<"\"">> \o v.s \o <<"\"">>
      [] v.t = "list" -> <<"[">> \o JoinDumps(v.l) \o <<"]">>
      [] v.t = "dict" /\ DOMAIN v.d = {} -> S_empty_object
      [] v.t = "dict" /\ Cardinality(DOMAIN v.d) = 1 ->
            LET k == CHOOSE x \in DOMAIN v.d : TRUE
            IN  <<"{", "\"">> \o KeyText[k] \o <<"\"", ":", " ">>
                    \o json_dumps(v.d[k]) \o <<"}">>

\* The values uuid.uuid4().hex gives, in the order they are drawn: the
\* i-th is i times the hexadecimal digit.
MaxUuids == 12

UuidsOf(digit) == [i \in 1..MaxUuids |-> [j \in 1..i |-> digit]]

\* _anthropic_tool_use_to_openai_item(block), the input being None, a
\* string or a mapping, `used` uuids being drawn already: the item, and the
\* uuids drawn after it.
_anthropic_tool_use_to_openai_item(block, uuids, used) ==
    LET given == Get(block.d, "id")
        drawn == IF Truthy(given) THEN used ELSE used + 1
        call_id == IF Truthy(given) THEN given
                   ELSE JStr(<<"c", "a", "l", "l", "_">> \o uuids[used + 1])
        name == IF Truthy(Get(block.d, "name")) THEN Get(block.d, "name")
                ELSE JStr(<<>>)
        tool_input == Get(block.d, "input")
        args == IF tool_input.t = "str" THEN tool_input
                ELSE JStr(json_dumps(IF Truthy(tool_input) THEN tool_input
                                     ELSE JDict(<<>>)))
    IN  [item |-> JDict([type |-> JStr(S_function_call),
                         id |-> JStr(<<"f", "c", "_">> \o uuids[drawn + 1]),
                         call_id |-> call_id,
                         name |-> name,
                         arguments |-> args]),
         used |-> drawn + 1]

\* _anthropic_tool_result_to_openai_item(block), the content being None, a
\* string or a list.
_anthropic_tool_result_to_openai_item(block) ==
    LET tool_use_id == Get(block.d, "tool_use_id")
        given == Get(block.d, "content")
        content == IF given.t = "list" THEN JStr(JoinTextBlocks(given.l))
                   ELSE given
    IN  JDict([type |-> JStr(S_function_call_output),
               call_id |-> IF Truthy(tool_use_id) THEN tool_use_id
                           ELSE JStr(<<>>),
               output |-> IF content.t = "null" THEN JStr(<<>>) ELSE content])

\* flush_message(): the items after the parts collected are appended as
\* one message item, when there are any.
flush_message(items, role, cur_parts) ==
    IF cur_parts = <<>> THEN items
    ELSE Append(items, JDict([type |-> JStr(S_message), role |-> role,
                              content |-> JList(cur_parts)]))

\* The loop state after a tool_use block: its item appended to the items
\* flushed, no parts, the uuids drawn.
AfterToolUse(flushed, tool) ==
    [items |-> Append(flushed, tool.item), cur_parts |-> <<>>,
     used |-> tool.used]

S_image == <<"i", "m", "a", "g", "e">>

\* One turn of the loop over the blocks of a message; s is the items, the
\* parts collected and the number of uuids drawn.  Image blocks are not
\* offered.
BlockStep(s, block, role, uuids) ==
    LET btype == Get(block.d, "type")
        text_part_type == IF role = JStr(S_user) THEN S_input_text
                          ELSE S_output_text
    IN  CASE btype = JStr(S_text) ->
                [s EXCEPT !.cur_parts =
                     Append(@, JDict([type |-> JStr(text_part_type),
                                      text |-> TextOf(block)]))]
          [] btype = JStr(S_tool_use) ->
                AfterToolUse(flush_message(s.items, role, s.cur_parts),
                             _anthropic_tool_use_to_openai_item(block, uuids,
                                                                s.used))
          [] btype = JStr(S_tool_result) ->
                [items |-> Append(flush_message(s.items, role, s.cur_parts),
                                  _anthropic_tool_result_to_openai_item(block)),
                 cur_parts |-> <<>>,
                 used |-> s.used]
          [] btype \notin {JStr(S_text), JStr(S_tool_use),
                           JStr(S_tool_result), JStr(S_image)} ->
                [s EXCEPT !.cur_parts =
                     Append(@, JDict([type |-> JStr(text_part_type),
                                      text |-> JStr(json_dumps(block))]))]

RECURSIVE BlocksLoop(_, _, _, _)
BlocksLoop(s, blocks, role, uuids) ==
    IF blocks = <<>> THEN s
    ELSE CHOOSE after \in
             {BlocksLoop(BlockStep(before, Head(blocks), role, uuids),
                         Tail(blocks), role, uuids) : before \in {s}} : TRUE

\* The end of a message: r is the loop state after its blocks, and the
\* parts left are flushed.
AfterBlocks(role, r) ==
    [items |-> flush_message(r.items, role, r.cur_parts), used |-> r.used]

\* The items after one message: those of its blocks in order, the parts
\* left flushed at its end; s is the items and the number of uuids drawn.
MessageItems(s, msg, uuids) ==
    IF msg.t # "dict" THEN s
    ELSE LET role == Get(msg.d, "role")
             blocks == _normalize_anthropic_content(Get(msg.d, "content"))
         IN  IF role \notin {JStr(S_user), JStr(S_assistant)} THEN s
             ELSE AfterBlocks(role,
                              BlocksLoop([items |-> s.items,
                                          cur_parts |-> <<>>,
                                          used |-> s.used],
                                         blocks, role, uuids))

RECURSIVE MessagesLoop(_, _, _)
MessagesLoop(s, messages, uuids) ==
    IF messages = <<>> THEN s
    ELSE CHOOSE after \in
             {MessagesLoop(MessageItems(before, Head(messages), uuids),
                           Tail(messages), uuids) : before \in {s}} : TRUE

\* The transform that flushes the parts of a message only at its end.
RECURSIVE anthropic_messages_to_openai_items_flush_last(_, _)
anthropic_messages_to_openai_items_flush_last(messages, uuids) ==
    IF messages = <<>> THEN <<>>
    ELSE LET msg == Head(messages)
             role == Get(msg.d, "role")
             r == MessageItems([items |-> <<>>, used |-> 0], msg, uuids).items
             tools == SelectSeq(r, LAMBDA it :
                          Get(it.d, "type") # JStr(S_message))
             parts == SelectSeq(r, LAMBDA it :
                          Get(it.d, "type") = JStr(S_message))
         IN  (IF msg.t = "dict" THEN tools \o parts ELSE <<>>)
                 \o anthropic_messages_to_openai_items_flush_last(
                        Tail(messages), uuids)

\* anthropic_messages_to_openai_items(messages)
anthropic_messages_to_openai_items(messages, uuids) ==
    CHOOSE items \in
        {MessagesLoop([items |-> <<>>, used |-> 0], msgs, uuids).items :
             msgs \in {messages}} : TRUE

\* _anthropic_system_to_text(system), system being None, a string or a
\* list.
_anthropic_system_to_text(system) ==
    CASE system.t = "null" -> JNone
      [] system.t = "str" -> system
      [] system.t = "list" ->
            LET text == Strip(JoinTextBlocks(system.l))
            IN  IF text # <<>> THEN JStr(text) ELSE JNone

\* _anthropic_tools_to_openai_tools(tools)
RECURSIVE _anthropic_tools_to_openai_tools(_)
_anthropic_tools_to_openai_tools(tools) ==
    IF tools = <<>> THEN <<>>
    ELSE LET t == Head(tools) IN
         (IF t.t = "dict" /\ Truthy(Get(t.d, "name"))
          THEN <<JDict([type |-> JStr(S_function),
                        name |-> Get(t.d, "name"),
                        description |-> Get(t.d, "description"),
                        parameters |->
                            IF Truthy(Get(t.d, "input_schema"))
                            THEN Get(t.d, "input_schema") ELSE JDict(<<>>)])>>
          ELSE <<>>)
             \o _anthropic_tools_to_openai_tools(Tail(tools))

\* _anthropic_tool_choice_to_openai(choice)
_anthropic_tool_choice_to_openai(choice) ==
    IF /\ choice.t = "dict"
       /\ Get(choice.d, "type") = JStr(S_tool)
       /\ Truthy(Get(choice.d, "name"))
    THEN JDict([type |-> JStr(S_function), name |-> Get(choice.d, "name")])
    ELSE choice

\* out[k] = v when cond, out otherwise.
PutIf(cond, d, k, v) == IF cond THEN Put(d, k, v) ELSE d

\* The transform that reads temperature with payload.get() whether the key
\* is there or not.
convert_anthropic_to_openai_request_get_temperature(payload) ==
    LET messages == IF Truthy(Get(payload, "messages"))
                    THEN Get(payload, "messages").l ELSE <<>>
        o1 == [model |-> Get(payload, "model"),
               input |-> JList(anthropic_messages_to_openai_items(messages,
                                                                   UuidsOf("a"))),
               temperature |-> Get(payload, "temperature")]
        o3 == PutIf(Get(payload, "max_tokens").t \in {"int", "bool"}, o1,
                    "max_output_tokens", Get(payload, "max_tokens"))
        o5 == PutIf("top_p" \in DOMAIN payload, o3,
                    "top_p", Get(payload, "top_p"))
    IN  PutIf(Get(payload, "stream").t = "bool", o5,
              "stream", Get(payload, "stream"))

\* convert_anthropic_to_openai_request(payload), thinking not enabled.
convert_anthropic_to_openai_request(payload) ==
    LET messages == IF Truthy(Get(payload, "messages"))
                    THEN Get(payload, "messages").l ELSE <<>>
        o1 == [model |-> Get(payload, "model"),
               input |-> JList(anthropic_messages_to_openai_items(messages,
                                                                   UuidsOf("a")))]
        instructions == _anthropic_system_to_text(Get(payload, "system"))
        o2 == PutIf(Truthy(instructions), o1, "instructions", instructions)
        o3 == PutIf(Get(payload, "max_tokens").t \in {"int", "bool"}, o2,
                    "max_output_tokens", Get(payload, "max_tokens"))
        o4 == PutIf("temperature" \in DOMAIN payload, o3,
                    "temperature", Get(payload, "temperature"))
        o5 == PutIf("top_p" \in DOMAIN payload, o4,
                    "top_p", Get(payload, "top_p"))
        o6 == PutIf(Get(payload, "tools").t = "list", o5, "tools",
                    JList(_anthropic_tools_to_openai_tools(
                              IF Get(payload, "tools").t = "list"
                              THEN Get(payload, "tools").l ELSE <<>>)))
        o7 == PutIf(Get(payload, "tool_choice").t # "null", o6, "tool_choice",
                    _anthropic_tool_choice_to_openai(
                        Get(payload, "tool_choice")))
    IN  PutIf(Get(payload, "stream").t = "bool", o7,
              "stream", Get(payload, "stream"))

----------------------------------------------------------------------------
\* The log scrubber (server.py).

\* str.lower() of a key.  The keys of the model that hold an upper-case
\* letter are those of this table; every other key is its own lower case.
LowerTable ==
    [k \in {"Authorization", "API_KEY", "X-OpenAI-Api-Key"} |->
        CASE k = "Authorization" -> "authorization"
          [] k = "API_KEY" -> "api_key"
          [] k = "X-OpenAI-Api-Key" -> "x-openai-api-key"]

Lower(k) == IF k \in DOMAIN LowerTable THEN LowerTable[k] ELSE k

\* The keys whose values are masked.
SensitiveKeys == {"authorization", "api_key", "x-openai-api-key"}

\* The value that replaces a masked one: "***".
Masked == JStr(<<"*", "*", "*">>)

\* The scrubber that leaves lists as they are.
RECURSIVE _scrub_payload_skip_lists(_)
_scrub_payload_skip_lists(data) ==
    CASE data.t = "dict" ->
            JDict([k \in DOMAIN data.d |->
                      IF Lower(k) \in SensitiveKeys THEN Masked
                      ELSE _scrub_payload_skip_lists(data.d[k])])
      [] OTHER -> data

\* _scrub_payload(data); v is data, read once.
RECURSIVE _scrub_payload(_)
_scrub_payload(data) ==
    CHOOSE scrubbed \in
        {CASE v.t = "dict" ->
                 JDict([k \in DOMAIN v.d |->
                           IF Lower(k) \in SensitiveKeys THEN Masked
                           ELSE _scrub_payload(v.d[k])])
           [] v.t = "list" ->
                 JList([i \in 1..Len(v.l) |-> _scrub_payload(v.l[i])])
           [] OTHER -> v : v \in {data}} : TRUE

----------------------------------------------------------------------------
\* The batch transform (openai_to_anthropic.py and server.py), for items
\* whose content is text.

\* str(v) of a string or None.
StrOf(v) == IF v.t = "str" THEN v ELSE JStr(S_None)

\* a or b
Or(a, b) == IF Truthy(a) THEN a ELSE b

\* _extract_reasoning_summary(item)
_extract_reasoning_summary(item) ==
    LET summary == Or(Get(item, "summary"), Get(item, "text"))
    IN  IF summary.t = "str" /\ Strip(summary.s) # <<>> THEN summary
        ELSE JNone

\* _thinking_block(summary)
_thinking_block(summary) ==
    JDict([type |-> JStr(S_thinking), thinking |-> summary,
           signature |-> JStr(<<>>)])

\* The texts of the input_text and output_text parts of a list.
RECURSIVE JoinTextParts(_)
JoinTextParts(parts) ==
    IF parts = <<>> THEN <<>>
    ELSE (IF /\ Head(parts).t = "dict"
             /\ Get(Head(parts).d, "type")
                    \in {JStr(S_input_text), JStr(S_output_text)}
          THEN Or(Get(Head(parts).d, "text"), JStr(<<>>)).s ELSE <<>>)
             \o JoinTextParts(Tail(parts))

\* _extract_openai_text(content), content being None, a string or a list.
_extract_openai_text(content) ==
    CASE content.t = "null" -> JNone
      [] content.t = "str" -> content
      [] content.t = "list" ->
            LET joined == Strip(JoinTextParts(content.l))
            IN  IF joined # <<>> THEN JStr(joined) ELSE JNone

\* The blocks of the parts of a list, unknown parts being dropped.
RECURSIVE PartsToBlocks(_)
PartsToBlocks(parts) ==
    IF parts = <<>> THEN <<>>
    ELSE (IF /\ Head(parts).t = "dict"
             /\ Get(Head(parts).d, "type")
                    \in {JStr(S_input_text), JStr(S_output_text)}
          THEN <<JDict([type |-> JStr(S_text),
                        text |-> IF "text" \in DOMAIN Head(parts).d
                                 THEN Head(parts).d["text"]
                                 ELSE JStr(<<>>)])>>
          ELSE <<>>)
             \o PartsToBlocks(Tail(parts))

\* _openai_content_to_anthropic_blocks(content, keep_unknown=False), content
\* being None, a string or a list.
_openai_content_to_anthropic_blocks(content) ==
    CASE content.t = "null" -> <<>>
      [] content.t = "str" ->
            <<JDict([type |-> JStr(S_text), text |-> content])>>
      [] content.t = "list" -> PartsToBlocks(content.l)

\* ensure_message(role) that never returns the last message.
ExtendMessageAlwaysNew(messages, role, blocks) ==
    Append(messages, [role |-> role, content |-> blocks])

\* ensure_message(role)["content"] += blocks: messages is a sequence of
\* [role, content].
ExtendMessage(messages, role, blocks) ==
    IF messages # <<>> /\ messages[Len(messages)].role = role
    THEN [messages EXCEPT ![Len(messages)].content = @ \o blocks]
    ELSE Append(messages, [role |-> role, content |-> blocks])

\* The input of a tool_use block: the arguments parsed, or kept under _raw
\* when json.loads raises.
LoadedOrRaw(loaded, args) ==
    IF loaded.ok THEN loaded.value ELSE JDict([_raw |-> args])

\* The tool_use block of a function_call item.
FunctionCallBlock(item) ==
    LET call_id == Or(Get(item, "call_id"), Get(item, "id"))
        args == Get(item, "arguments")
        tool_input ==
            IF args.t = "str" /\ Strip(args.s) # <<>>
            THEN LoadedOrRaw(json_loads(args.s), args)
            ELSE JDict(<<>>)
    IN  JDict([type |-> JStr(S_tool_use), id |-> StrOf(call_id),
               name |-> StrOf(Get(item, "name")), input |-> tool_input])

\* The tool_use block of a custom_tool_call item.
CustomToolCallBlock(item) ==
    LET call_id == Or(Get(item, "call_id"), Get(item, "id"))
    IN  JDict([type |-> JStr(S_tool_use), id |-> StrOf(call_id),
               name |-> StrOf(Get(item, "name")),
               input |-> JDict([input |-> IF "input" \in DOMAIN item
                                          THEN item["input"]
                                          ELSE JStr(<<>>)])])

\* The tool_result block of a function_call_output item whose output is
\* None or a string.
FunctionCallOutputBlock(item) ==
    JDict([type |-> JStr(S_tool_result),
           tool_use_id |-> StrOf(Get(item, "call_id")),
           content |-> Or(Get(item, "output"), JStr(<<>>))])

\* One iteration of the loop of openai_items_to_anthropic_messages on the
\* pair r = [system, messages], with keep_unknown off.
ItemToMessages(r, item, keep_reasoning, keep_summary) ==
    IF item.t # "dict" THEN r
    ELSE
    LET d == item.d
        t == Get(d, "type")
        role == Get(d, "role")
        summary == _extract_reasoning_summary(d)
        sys_text == _extract_openai_text(Get(d, "content"))
        to(rl, blocks) ==
            [r EXCEPT !.messages = ExtendMessage(@, rl, blocks)]
    IN  CASE t = JStr(S_reasoning) ->
                IF keep_summary /\ Truthy(summary)
                THEN to(S_assistant, <<_thinking_block(summary)>>)
                ELSE IF keep_reasoning
                THEN to(S_assistant,
                        <<JDict([type |-> JStr(S_text),
                                 text |-> JStr(S_openai_reasoning)])>>)
                ELSE r
          [] \/ t = JStr(S_message)
             \/ t = JNone /\ "role" \in DOMAIN d /\ "content" \in DOMAIN d ->
                IF role = JStr(S_system)
                THEN IF Truthy(sys_text) THEN [r EXCEPT !.system = sys_text]
                     ELSE r
                ELSE to(IF role \in {JStr(S_user), JStr(S_assistant)}
                        THEN role.s ELSE S_assistant,
                        _openai_content_to_anthropic_blocks(Get(d, "content")))
          [] t = JStr(S_function_call) ->
                to(S_assistant, <<FunctionCallBlock(d)>>)
          [] t = JStr(S_custom_tool_call) ->
                to(S_assistant, <<CustomToolCallBlock(d)>>)
          [] t = JStr(S_function_call_output) ->
                to(S_user, <<FunctionCallOutputBlock(d)>>)
          [] OTHER -> r

\* The loop over the items.
RECURSIVE ItemsToMessages(_, _, _, _)
ItemsToMessages(r, items, keep_reasoning, keep_summary) ==
    IF items = <<>> THEN r
    ELSE ItemsToMessages(
             ItemToMessages(r, Head(items), keep_reasoning, keep_summary),
             Tail(items), keep_reasoning, keep_summary)

\* openai_items_to_anthropic_messages(items, instructions=instructions,
\* keep_reasoning=keep_reasoning, keep_reasoning_summary=keep_summary): (system, messages), the
\* messages without content being dropped.
openai_items_to_anthropic_messages(items, instructions, keep_reasoning, keep_summary) ==
    LET r == ItemsToMessages([system |-> instructions, messages |-> <<>>],
                             items, keep_reasoning, keep_summary)
    IN  [r EXCEPT !.messages = SelectSeq(@, LAMBDA m : m.content # <<>>)]

\* _openai_stop_reason(resp)
_openai_stop_reason(resp) ==
    LET inc == IF resp.t = "dict" THEN Get(resp.d, "incomplete_details")
               ELSE JNone
        o == IF resp.t = "dict" THEN Get(resp.d, "output") ELSE JNone
        last == IF o.t = "list" /\ o.l # <<>> THEN o.l[Len(o.l)] ELSE JNone
    IN  IF inc.t = "dict" /\ Get(inc.d, "reason") = JStr(S_max_tokens)
        THEN S_max_tokens
        ELSE IF /\ last.t = "dict"
                /\ Get(last.d, "type")
                       \in {JStr(S_function_call), JStr(S_custom_tool_call)}
        THEN S_tool_use
        ELSE S_end_turn

\* The content of the assistant messages, in order.
RECURSIVE AssistantContent(_)
AssistantContent(messages) ==
    IF messages = <<>> THEN <<>>
    ELSE (IF Head(messages).role = S_assistant THEN Head(messages).content
          ELSE <<>>) \o AssistantContent(Tail(messages))

\* The id f"msg_{uuid.uuid4().hex}" of a message whose response has none.
GeneratedMessageId == <<"m", "s", "g", "_", "1">>

\* _openai_response_to_anthropic_message(resp)
_openai_response_to_anthropic_message(resp) ==
    LET d == IF resp.t = "dict" THEN resp.d ELSE <<>>
        o == Get(d, "output")
        items == IF o.t = "list" THEN o.l ELSE <<>>
        messages == openai_items_to_anthropic_messages(
                        items, JNone, FALSE, FALSE).messages
        u == Get(d, "usage")
        usage == IF u.t = "dict"
                 THEN JDict([input_tokens |-> Get(u.d, "input_tokens"),
                             output_tokens |-> Get(u.d, "output_tokens")])
                 ELSE JDict(<<>>)
    IN  JDict([id |-> Or(Get(d, "id"), JStr(GeneratedMessageId)),
               type |-> JStr(S_message),
               role |-> JStr(S_assistant),
               content |-> JList(AssistantContent(messages)),
               model |-> IF resp.t = "dict" THEN Get(d, "model")
                         ELSE JStr(S_unknown),
               stop_reason |-> JStr(_openai_stop_reason(resp)),
               stop_sequence |-> JNone,
               usage |-> usage])

----------------------------------------------------------------------------
\* The HTTP surface (server.py): POST /v1/messages.

\* Model names of clients and of the upstream.
M_cs == <<"c", "s">>
M_zz == <<"z", "z">>
M_g4 == <<"g", "4">>
M_g5 == <<"g", "5">>

\* Model map files: a missing file; a wildcard with a mapping and a
\* catch-all; an exact key whose extras carry store and stream; two
\* wildcards, one with extras and no model; entries that are not kept.
ModelMapFiles ==
    { [exists |-> FALSE, entries |-> <<>>],
      [exists |-> TRUE,
       entries |-> << [k |-> <<"c", "*">>,
                       v |-> JDict([model |-> JStr(M_g5),
                                    reasoning |->
                                        JDict([effort |-> JStr(<<"m">>)])])],
                      [k |-> <<"*">>, v |-> JStr(M_g4)] >>],
      [exists |-> TRUE,
       entries |-> << [k |-> M_cs,
                       v |-> JDict([model |-> JStr(M_g5),
                                    store |-> JBool(TRUE),
                                    stream |-> JBool(TRUE)])] >>],
      [exists |-> TRUE,
       entries |-> << [k |-> <<"c", "?">>,
                       v |-> JDict([store |-> JBool(TRUE)])],
                      [k |-> <<"*", "s">>, v |-> JStr(M_g4)] >>],
      [exists |-> TRUE,
       entries |-> << [k |-> <<>>, v |-> JStr(M_g4)],
                      [k |-> M_cs, v |-> JStr(<<>>)],
                      [k |-> M_zz, v |-> JDict(<<>>)],
                      [k |-> <<"c", "*">>, v |-> JInt(1)] >>] }

\* The fields a client payload may carry.
PayloadModels == {JNone, JStr(<<>>), JStr(M_cs), JStr(M_zz)}
PayloadStreams == {JNone, JBool(TRUE), JBool(FALSE)}
PayloadStores == {JNone, JBool(TRUE)}
PayloadMessages ==
    {JNone,
     JList(<<JDict([role |-> JStr(S_user), content |-> JStr(<<"B">>)])>>)}

\* The mapping of the fields that are present.
RECURSIVE PayloadOf(_, _)
PayloadOf(keys, fields) ==
    IF keys = <<>> THEN <<>>
    ELSE LET rest == PayloadOf(Tail(keys), fields) IN
         IF fields[Head(keys)] = JNone THEN rest
         ELSE Put(rest, Head(keys), fields[Head(keys)])

\* The JSON bodies of requests: mappings, and a body that is not one.
Payloads ==
    {JList(<<>>)} \cup
    { JDict(PayloadOf(<<"model", "stream", "store", "messages">>,
                      [model |-> m, stream |-> s, store |-> t,
                       messages |-> g])) :
        m \in PayloadModels, s \in PayloadStreams, t \in PayloadStores,
        g \in PayloadMessages }

\* _log_json(label, data): the entry of the payload log.
LogEntry(label, data) == [label |-> label, data |-> data]

\* The outcome of create_message up to the request to the upstream: the
\* status of the HTTPException raised (0 when none), the request posted, the
\* function that posts it, the cache of the model map, the payloads logged
\* and what _get_model_map returned (NoneRec when it was not called).
Outcome(status, posted, path, cache, log, mapping) ==
    [status |-> status, posted |-> posted, path |-> path, cache |-> cache,
     log |-> log, mapping |-> mapping]

\* create_message with the stateless mode forced before the extras of the
\* model map are merged.
create_message_store_before_merge(payload, has_key, force_stream, cache, file) ==
    IF payload.t # "dict"
    THEN Outcome(400, NoneRec, "none", cache, <<>>, NoneRec)
    ELSE IF ~has_key
    THEN Outcome(500, NoneRec, "none", cache,
                 <<LogEntry("anthropic.request", _scrub_payload(payload))>>,
                 NoneRec)
    ELSE
    LET log1 == <<LogEntry("anthropic.request", _scrub_payload(payload))>>
        req0 == convert_anthropic_to_openai_request(payload.d)
        model == Get(req0, "model")
        mapping == _get_model_map(cache, file)
        cache1 == IF Truthy(model) THEN [map |-> mapping] ELSE cache
        returned == IF Truthy(model) THEN [map |-> mapping] ELSE NoneRec
        mapped == _map_model_and_extras(model, mapping)
        req1 == Put(Put(req0, "model", mapped.model), "store", JBool(FALSE))
        req2 == IF DOMAIN mapped.extra # {}
                THEN _deep_merge_inplace(req1, mapped.extra) ELSE req1
        req4 == IF force_stream THEN Put(req2, "stream", JBool(TRUE)) ELSE req2
        path == IF Get(payload.d, "stream") = JBool(TRUE) THEN "stream"
                ELSE IF Get(req4, "stream") = JBool(TRUE)
                     THEN "stream_message" ELSE "plain"
    IN  IF ~Truthy(Get(req2, "model"))
        THEN Outcome(400, NoneRec, "none", cache1, log1, returned)
        ELSE Outcome(0, req4, path, cache1,
                     Append(log1, LogEntry("openai.request",
                                           _scrub_payload(JDict(req4)))),
                     returned)

\* create_message up to the request to the upstream.
create_message(payload, has_key, force_stream, cache, file) ==
    IF payload.t # "dict"
    THEN Outcome(400, NoneRec, "none", cache, <<>>, NoneRec)
    ELSE IF ~has_key
    THEN Outcome(500, NoneRec, "none", cache,
                 <<LogEntry("anthropic.request", _scrub_payload(payload))>>,
                 NoneRec)
    ELSE
    LET log1 == <<LogEntry("anthropic.request", _scrub_payload(payload))>>
        req0 == convert_anthropic_to_openai_request(payload.d)
        model == Get(req0, "model")
        mapping == _get_model_map(cache, file)
        cache1 == IF Truthy(model) THEN [map |-> mapping] ELSE cache
        returned == IF Truthy(model) THEN [map |-> mapping] ELSE NoneRec
        mapped == _map_model_and_extras(model, mapping)
        req1 == Put(req0, "model", mapped.model)
        req2 == IF DOMAIN mapped.extra # {}
                THEN _deep_merge_inplace(req1, mapped.extra) ELSE req1
        req3 == Put(req2, "store", JBool(FALSE))
        req4 == IF force_stream THEN Put(req3, "stream", JBool(TRUE)) ELSE req3
        path == IF Get(payload.d, "stream") = JBool(TRUE) THEN "stream"
                ELSE IF Get(req4, "stream") = JBool(TRUE)
                     THEN "stream_message" ELSE "plain"
    IN  IF ~Truthy(Get(req2, "model"))
        THEN Outcome(400, NoneRec, "none", cache1, log1, returned)
        ELSE Outcome(0, req4, path, cache1,
                     Append(log1, LogEntry("openai.request",
                                           _scrub_payload(JDict(req4)))),
                     returned)

\* The response objects of the upstream: a message of text with its id
\* and usage; a function call without id, with a key of the upstream.
UpstreamResponses ==
    { JDict([id |-> JStr(<<"r", "1">>), model |-> JStr(M_g5),
             output |-> JList(<<JDict([type |-> JStr(S_message),
                                       role |-> JStr(S_assistant),
                                       content |-> JList(<<JDict(
                                           [type |-> JStr(S_output_text),
                                            text |-> JStr(<<"B">>)])>>)])>>),
             usage |-> JDict([input_tokens |-> JInt(1),
                              output_tokens |-> JInt(2)])]),
      JDict([model |-> JStr(M_g4),
             output |-> JList(<<JDict([type |-> JStr(S_function_call),
                                       call_id |-> JStr(<<"c", "1">>),
                                       name |-> JStr(<<"f">>),
                                       arguments |-> JStr(S_empty_object)])>>),
             api_key |-> JStr(<<"S">>)]) }

S_completed == <<"response.completed">>
S_incomplete == <<"response.incomplete">>
S_failed == <<"response.failed">>
S_in_progress == <<"response.in_progress">>

\* The types of the terminal events.  The type of an event is carried
\* whole, as the one element of its string.
TerminalTypes == {JStr(S_completed), JStr(S_incomplete), JStr(S_failed)}

\* The events of an upstream stream, as iter_openai_sse_json_events yields
\* them: an event no branch handles, terminal events with a response
\* object, without one, and with a response that is no mapping.
UpstreamEvents ==
    {JDict([type |-> JStr(S_in_progress)]),
     JDict([type |-> JStr(S_incomplete)]),
     JDict([type |-> JStr(S_completed), response |-> JStr(<<"x">>)])}
    \cup {JDict([type |-> JStr(S_completed), response |-> r]) :
              r \in UpstreamResponses}

\* Events of one upstream stream.
MaxStreamEvents == 2

\* The streams of at most n events.
StreamsUpTo(n) == UNION {[1..k -> UpstreamEvents] : k \in 0..n}

\* What the upstream does with a request: the client times out, fails
\* otherwise, or gets an error status, a stream of events (for a request
\* posted as a stream) or a JSON body.
UpstreamReplies(path) ==
    {[kind |-> "timeout"], [kind |-> "request_error"], [kind |-> "http_error"]}
    \cup IF path = "plain"
         THEN {[kind |-> "json", data |-> r] : r \in UpstreamResponses}
         ELSE {[kind |-> "events", events |-> s] :
                   s \in StreamsUpTo(MaxStreamEvents)}

\* The status upstream errors are passed through with.
UpstreamErrorStatus == 429

\* An answer to the client: its status, its body and the payloads logged
\* on the way.
Answer(status, body, log) == [status |-> status, body |-> body, log |-> log]

\* _fetch_openai_stream_events: the status of the HTTPException raised (0
\* when none) and the events.
_fetch_openai_stream_events(reply) ==
    CASE reply.kind = "timeout" -> [status |-> 504, events |-> <<>>]
      [] reply.kind = "request_error" -> [status |-> 502, events |-> <<>>]
      [] reply.kind = "http_error" ->
            [status |-> UpstreamErrorStatus, events |-> <<>>]
      [] reply.kind = "events" -> [status |-> 0, events |-> reply.events]

\* What the terminal branch of iter_anthropic_events reads of the response
\* of an event (ev.get("response") or {}).
ResponseFields(response) ==
    LET resp == IF Truthy(response) THEN response ELSE JDict(<<>>)
        d == IF resp.t = "dict" THEN resp.d ELSE <<>>
        inc == Get(d, "incomplete_details")
        o == Get(d, "output")
        last == IF o.t = "list" /\ o.l # <<>> THEN o.l[Len(o.l)] ELSE JNone
        last_type == IF last.t = "dict" THEN Get(last.d, "type") ELSE JNone
    IN  [is_dict |-> resp.t = "dict",
         usage |-> IF Get(d, "usage").t = "dict" THEN Get(d, "usage").d
                   ELSE NoneRec,
         reasoning_summary |->
             IF Get(d, "reasoning_summary").t = "str"
             THEN Get(d, "reasoning_summary").s ELSE <<>>,
         incomplete_reason |->
             IF inc.t = "dict" /\ Get(inc.d, "reason") = JStr(S_max_tokens)
             THEN "max_tokens" ELSE "",
         last_output_type |->
             CASE last_type = JStr(S_function_call) -> "function_call"
               [] last_type = JStr(S_custom_tool_call) -> "custom_tool_call"
               [] OTHER -> ""]

\* iter_anthropic_events(events, model=model) on a stream of terminal
\* events and of events no branch handles: the events it yields.
RECURSIVE IterAnthropicEvents(_, _)
IterAnthropicEvents(events, model) ==
    LET c == [st |-> [NewStreamState EXCEPT !.model = model], out |-> <<>>]
    IN  IF events = <<>> THEN EndOfStream(c, FALSE).out
        ELSE IF Get(Head(events).d, "type") \in TerminalTypes
        THEN TerminalEvent(c, FALSE,
                           ResponseFields(Get(Head(events).d, "response"))).out
        ELSE IterAnthropicEvents(Tail(events), model)

\* An event of the transform as a JSON value, with the fields the model of
\* the transform keeps.
EventJson(ev) ==
    CASE ev.type = "message_start" ->
            JDict([type |-> JStr(<<ev.type>>),
                   message |-> JDict([id |-> JStr(<<ev.message.id>>),
                                      model |-> JStr(ev.message.model)])])
      [] ev.type = "message_delta" ->
            JDict([type |-> JStr(<<ev.type>>),
                   delta |-> JDict([stop_reason |->
                                       IF ev.delta.stop_reason = NoneStr
                                       THEN JNone
                                       ELSE JStr(<<ev.delta.stop_reason>>)]),
                   usage |-> JDict(ev.usage)])
      [] ev.type = "message_stop" -> JDict([type |-> JStr(<<ev.type>>)])

\* _stream_openai_to_anthropic(url, headers, openai_req): the body is the
\* events that iter_anthropic_sse_lines frames.
_stream_openai_to_anthropic(openai_req, reply) ==
    LET fetched == _fetch_openai_stream_events(reply)
        model == IF Truthy(Get(openai_req, "model"))
                 THEN Get(openai_req, "model").s ELSE S_unknown
        yielded == IterAnthropicEvents(fetched.events, model)
        anth_events == JList([i \in 1..Len(yielded) |-> EventJson(yielded[i])])
    IN  IF fetched.status # 0 THEN Answer(fetched.status, JNone, <<>>)
        ELSE Answer(200, anth_events,
                    <<LogEntry("openai.stream.events", JList(fetched.events)),
                      LogEntry("anthropic.stream.events", anth_events)>>)

\* The loop of _stream_openai_to_anthropic_message over
\* reversed(openai_events): the response returned, None when the loop ends.
RECURSIVE LastResponse(_)
LastResponse(openai_events) ==
    IF openai_events = <<>> THEN JNone
    ELSE LET ev == openai_events[Len(openai_events)]
             resp == Get(ev.d, "response")
         IN  IF Get(ev.d, "type") \in TerminalTypes /\ resp.t = "dict"
             THEN resp
             ELSE LastResponse(SubSeq(openai_events, 1,
                                      Len(openai_events) - 1))

\* The end of create_message for the response object data: it is logged,
\* converted, and the message is logged and returned.
AnswerMessage(data, log) ==
    LET msg == _openai_response_to_anthropic_message(data)
    IN  Answer(200, msg,
               log \o <<LogEntry("openai.response", _scrub_payload(data)),
                        LogEntry("anthropic.response", _scrub_payload(msg))>>)

\* _stream_openai_to_anthropic_message scanning the events from the first.
RECURSIVE FirstResponse(_)
FirstResponse(openai_events) ==
    IF openai_events = <<>> THEN JNone
    ELSE LET ev == Head(openai_events)
             resp == Get(ev.d, "response")
         IN  IF Get(ev.d, "type") \in TerminalTypes /\ resp.t = "dict"
             THEN resp
             ELSE FirstResponse(Tail(openai_events))

_stream_openai_to_anthropic_message_first(reply) ==
    LET fetched == _fetch_openai_stream_events(reply)
        log == <<LogEntry("openai.stream.events", JList(fetched.events))>>
        resp == FirstResponse(fetched.events)
    IN  IF fetched.status # 0 THEN Answer(fetched.status, JNone, <<>>)
        ELSE IF resp = JNone THEN Answer(502, JNone, log)
        ELSE AnswerMessage(resp, log)

\* _stream_openai_to_anthropic_message(url, headers, openai_req) and the end
\* of create_message.
_stream_openai_to_anthropic_message(reply) ==
    LET fetched == _fetch_openai_stream_events(reply)
        log == <<LogEntry("openai.stream.events", JList(fetched.events))>>
        resp == LastResponse(fetched.events)
    IN  IF fetched.status # 0 THEN Answer(fetched.status, JNone, <<>>)
        ELSE IF resp = JNone THEN Answer(502, JNone, log)
        ELSE AnswerMessage(resp, log)

\* The plain post of create_message and its end.  No exception of the
\* client is caught there: the framework answers 500.
PlainPost(reply) ==
    CASE reply.kind \in {"timeout", "request_error"} -> Answer(500, JNone, <<>>)
      [] reply.kind = "http_error" -> Answer(UpstreamErrorStatus, JNone, <<>>)
      [] reply.kind = "json" -> AnswerMessage(reply.data, <<>>)

\* create_message from the request to the upstream on.
AnswerOf(path, openai_req, reply) ==
    CASE path = "stream" -> _stream_openai_to_anthropic(openai_req, reply)
      [] path = "stream_message" -> _stream_openai_to_anthropic_message(reply)
      [] path = "plain" -> PlainPost(reply)

\* The server before any request: the environment, the model map file and
\* the empty cache.
InitServer ==
    /\ st = NewStreamState
    /\ out = <<>>
    /\ pc = "loop"
    /\ keep_reasoning_summary = FALSE
    /\ inp = <<>>
    /\ src = <<>>
    /\ call = NoCall
    /\ \E file \in ModelMapFiles, force_stream \in BOOLEAN :
           srv = [pc |-> "idle", file |-> file, force_stream |-> force_stream,
                  cache |-> NoneRec, payload |-> JNone, has_key |-> FALSE,
                  posted |-> NoneRec, path |-> "none", status |-> 0,
                  reply |-> NoneRec, body |-> JNone, log |-> <<>>,
                  mapping |-> NoneRec]

\* A request arrives and is rejected or posted to the upstream.
CreateMessage ==
    /\ srv.pc = "idle"
    /\ \E payload \in Payloads, has_key \in BOOLEAN :
           \E r \in {create_message(payload, has_key, srv.force_stream,
                                    srv.cache, srv.file)} :
               srv' = [srv EXCEPT
                          !.pc = IF r.status = 0 THEN "awaiting"
                                 ELSE "answered",
                          !.payload = payload,
                          !.has_key = has_key,
                          !.posted = r.posted,
                          !.path = r.path,
                          !.status = r.status,
                          !.cache = r.cache,
                          !.reply = NoneRec,
                          !.body = JNone,
                          !.log = r.log,
                          !.mapping = r.mapping]
    /\ UNCHANGED <<stream_vars, call>>

\* The upstream replies, or fails to, and the client is answered.
UpstreamReply ==
    /\ srv.pc = "awaiting"
    /\ \E reply \in UpstreamReplies(srv.path) :
           \E a \in {AnswerOf(srv.path, srv.posted, reply)} :
               srv' = [srv EXCEPT !.pc = "answered",
                                  !.reply = reply,
                                  !.status = a.status,
                                  !.body = a.body,
                                  !.log = @ \o a.log]
    /\ UNCHANGED <<stream_vars, call>>

\* The answer has left; the server waits for the next request.
Return ==
    /\ srv.pc = "answered"
    /\ srv' = [srv EXCEPT !.pc = "idle", !.payload = JNone,
                           !.has_key = FALSE, !.posted = NoneRec,
                           !.path = "none", !.status = 0, !.reply = NoneRec,
                           !.body = JNone, !.log = <<>>,
                           !.mapping = NoneRec]
    /\ UNCHANGED <<stream_vars, call>>

\* model-map.yml is written, removed or left as it is between requests.
WriteModelMapFile ==
    /\ srv.pc = "idle"
    /\ \E file \in ModelMapFiles : srv' = [srv EXCEPT !.file = file]
    /\ UNCHANGED <<stream_vars, call>>

\* _MODEL_MAP_CACHE = None, as the tests do before they write the file.
ResetCache ==
    /\ srv.pc = "idle"
    /\ srv' = [srv EXCEPT !.cache = NoneRec]
    /\ UNCHANGED <<stream_vars, call>>

NextServer ==
    \/ CreateMessage
    \/ UpstreamReply
    \/ Return
    \/ WriteModelMapFile
    \/ ResetCache

SpecServer == InitServer /\ [][NextServer]_vars

----------------------------------------------------------------------------
\* C20: every request posted to the upstream has store = false, whatever
\* the payload of the client carries and whatever the extras of the model
\* map merged into it, an extras key named store included.
C20_StoreAlwaysFalse ==
    srv.posted # NoneRec => Get(srv.posted, "store") = JBool(FALSE)

\* A request is at the upstream whose payload carried store = true and
\* whose model was mapped by an entry with store = true in its extras.
C20_Witness ==
    /\ srv.pc = "awaiting"
    /\ srv.posted # NoneRec
    /\ Get(srv.payload.d, "store") = JBool(TRUE)
    /\ Get(_map_model_and_extras(Get(srv.payload.d, "model"),
                                 srv.cache.map).extra, "store") = JBool(TRUE)
    /\ Get(srv.posted, "model") = JStr(M_g5)

----------------------------------------------------------------------------
\* C21: an upstream timeout is answered with 504 on both paths to the
\* upstream, the streaming fetch and the plain post.
C21_TimeoutIs504 ==
    srv.pc = "answered" /\ srv.reply = [kind |-> "timeout"]
        => srv.status = 504

----------------------------------------------------------------------------
\* C29: every payload in the payload log (client request, upstream request,
\* upstream response, upstream stream events, emitted Anthropic events,
\* Anthropic response) has gone through the scrubber: no logged payload
\* holds a value that the scrubber would replace.
C29_LoggedPayloadsScrubbed ==
    srv.pc # "off"
        => \A i \in 1..Len(srv.log) :
               srv.log[i].data = _scrub_payload(srv.log[i].data)

----------------------------------------------------------------------------
\* C22: when the client did not ask for a stream and the request to the
\* upstream is streamed, the answer is the batch transform of the response
\* object of the last terminal event of the upstream stream that carries
\* one, and 502 when no terminal event carries a response object.

\* The positions of the terminal events that carry a response object.
Carriers(events) ==
    {i \in 1..Len(events) :
        /\ Get(events[i].d, "type") \in TerminalTypes
        /\ Get(events[i].d, "response").t = "dict"}

\* The request at the upstream was streamed without the client asking for
\* it, and a stream of events came back.
StreamedForMessage ==
    /\ srv.pc = "answered"
    /\ srv.posted # NoneRec
    /\ Get(srv.payload.d, "stream") # JBool(TRUE)
    /\ Get(srv.posted, "stream") = JBool(TRUE)
    /\ srv.reply.kind = "events"

C22_LastResponseConverted ==
    StreamedForMessage =>
        LET events == srv.reply.events
            last == CHOOSE i \in Carriers(events) :
                        \A j \in Carriers(events) : j <= i
        IN  IF Carriers(events) = {}
            THEN srv.status = 502 /\ srv.body = JNone
            ELSE /\ srv.status = 200
                 /\ srv.body = _openai_response_to_anthropic_message(
                                   Get(events[last].d, "response"))

\* Two terminal events carried different response objects, and the answer
\* is the message of the second.
C22_Witness ==
    /\ StreamedForMessage
    /\ srv.force_stream
    /\ Cardinality(Carriers(srv.reply.events)) = 2
    /\ Get(srv.reply.events[1].d, "response")
           # Get(srv.reply.events[2].d, "response")
    /\ srv.status = 200
    /\ Get(srv.body.d, "stop_reason") = JStr(S_tool_use)

----------------------------------------------------------------------------
\* C25: the model map is read from the file at most once: once the cache
\* is set, every call of _get_model_map returns the cached mapping and
\* leaves the cache alone, whatever the file has become, until the cache
\* is reset to None; the first call after that loads the file again.

\* What the file holds for _get_model_map.
FileMapping(file) ==
    IF file.exists
    THEN SelectSeq(file.entries,
                   LAMBDA e : /\ e.k # <<>>
                              /\ \/ e.v.t = "str" /\ e.v.s # <<>>
                                 \/ e.v.t = "dict" /\ DOMAIN e.v.d # {})
    ELSE <<>>

\* This step is a request in which _get_model_map is called.
CallsGetModelMap == srv.pc = "idle" /\ srv'.pc # "idle" /\ srv'.mapping # NoneRec

C25_ModelMapCachedUntilReset ==
    [][/\ CallsGetModelMap /\ srv.cache # NoneRec
           => srv'.mapping = srv.cache /\ srv'.cache = srv.cache
       /\ CallsGetModelMap /\ srv.cache = NoneRec
           => /\ srv'.mapping = [map |-> FileMapping(srv.file)]
              /\ srv'.cache = srv'.mapping
       /\ srv'.cache # srv.cache
           => \/ CallsGetModelMap /\ srv.cache = NoneRec
              \/ srv'.cache = NoneRec]_vars

\* A request was served from the cache although the file now holds another
\* mapping.
C25_Witness ==
    /\ srv.pc = "awaiting"
    /\ srv.mapping # NoneRec
    /\ srv.mapping = srv.cache
    /\ srv.mapping.map # FileMapping(srv.file)
    /\ srv.mapping.map # <<>>
    /\ FileMapping(srv.file) # <<>>

----------------------------------------------------------------------------
\* The pure functions, applied to bounded inputs.

\* Entries of a model map.
MaxMapEntries == 2

\* The keys of the model maps offered: an exact name, wildcard patterns of
\* several specificities, and the catch-all.
MapKeys ==
    {M_cs, <<"c", "*">>, <<"c", "*", "*">>, <<"c", "*", "s">>,
     <<"?", "?">>, <<"*">>}

\* Their values: a replacement string, a mapping with a model and extras,
\* a mapping of extras only.
MapValues ==
    {JStr(M_g4),
     JDict([model |-> JStr(M_g5),
            reasoning |-> JDict([effort |-> JStr(<<"m">>)])]),
     JDict([store |-> JBool(TRUE)])}

\* The model maps of at most n entries, as _get_model_map returns them: no
\* key twice.
ModelMapsUpTo(n) ==
    UNION {[1..i -> [k : MapKeys, v : MapValues]] : i \in 0..n}

\* No key twice.
DistinctKeys(m) == \A i, j \in 1..Len(m) : m[i].k = m[j].k => i = j

\* The names of the models requested.
RequestedModels == {M_cs, M_zz, <<"c", "z">>}

\* The calls of _map_model_and_extras with maps of at most n entries.
MapModelCalls(n) ==
    {[f |-> "_map_model_and_extras", done |-> FALSE, model |-> model,
      mapping |-> mapping] :
        model \in RequestedModels,
        mapping \in {m \in ModelMapsUpTo(n) : DistinctKeys(m)}}

\* _map_model_and_extras(model) returns.
CallMapModel ==
    /\ call.f = "_map_model_and_extras"
    /\ ~call.done
    /\ call' = [f |-> call.f, done |-> TRUE, model |-> call.model,
                mapping |-> call.mapping,
                result |-> _map_model_and_extras(JStr(call.model),
                                                 call.mapping)]
    /\ UNCHANGED <<stream_vars, srv>>

\* _map_model_and_extras has returned.
MapModelReturned == call.f = "_map_model_and_extras" /\ call.done

----------------------------------------------------------------------------
\* C23: the resolution of a model name (a string that is not empty) takes
\* the exact key, else a matching wildcard pattern other than "*", else the
\* catch-all "*", else the requested model with empty extras; a string
\* value gives empty extras, a mapping value its model and its other keys
\* as extras.

\* What a value of the map stands for.
Resolved(requested, value) ==
    IF value.t = "str" THEN [model |-> value, extra |-> <<>>]
    ELSE [model |-> IF "model" \in DOMAIN value.d THEN value.d["model"]
                    ELSE JStr(requested),
          extra |-> [k \in DOMAIN value.d \ {"model"} |-> value.d[k]]]

\* The positions of the wildcard patterns, other than "*", that match.
MatchingWildcards(mapping, model) ==
    {i \in 1..Len(mapping) :
        /\ mapping[i].k # <<"*">>
        /\ \E j \in 1..Len(mapping[i].k) : mapping[i].k[j] \in {"*", "?"}
        /\ fnmatchcase(model, mapping[i].k)}

C23_ResolutionPrecedence ==
    MapModelReturned =>
        LET m == call.mapping
            exact == {i \in 1..Len(m) : m[i].k = call.model}
            wild == MatchingWildcards(m, call.model)
            catch == {i \in 1..Len(m) : m[i].k = <<"*">>}
        IN  IF exact # {}
            THEN \E i \in exact : call.result = Resolved(call.model, m[i].v)
            ELSE IF wild # {}
            THEN \E i \in wild : call.result = Resolved(call.model, m[i].v)
            ELSE IF catch # {}
            THEN \E i \in catch : call.result = Resolved(call.model, m[i].v)
            ELSE call.result = [model |-> JStr(call.model), extra |-> <<>>]

\* A wildcard pattern was preferred to the catch-all that came before it,
\* and its mapping gave a model and extras.
C23_Witness ==
    /\ MapModelReturned
    /\ Len(call.mapping) = 2
    /\ call.mapping[1].k = <<"*">>
    /\ call.mapping[1].v = JStr(M_g4)
    /\ MatchingWildcards(call.mapping, call.model) = {2}
    /\ call.result.model = JStr(M_g5)
    /\ DOMAIN call.result.extra = {"reasoning"}

----------------------------------------------------------------------------
\* C24: of several matching wildcard patterns the one of greatest
\* specificity (non-wildcard characters, then length) is chosen, wherever
\* it stands in the map.

\* Specificity a is greater than specificity b.
MoreSpecific(a, b) ==
    LET n(k) == Cardinality({j \in 1..Len(k) : k[j] \notin {"*", "?"}})
    IN  n(a) > n(b) \/ (n(a) = n(b) /\ Len(a) > Len(b))

C24_MostSpecificWildcard ==
    MapModelReturned =>
        LET m == call.mapping
            wild == MatchingWildcards(m, call.model)
        IN  \A i \in wild :
                /\ \A j \in 1..Len(m) : m[j].k # call.model
                /\ \A j \in wild \ {i} : MoreSpecific(m[i].k, m[j].k)
                => call.result = Resolved(call.model, m[i].v)

\* Two wildcard patterns matched, the more specific one came first, and the
\* values differ.
C24_Witness ==
    /\ MapModelReturned
    /\ MatchingWildcards(call.mapping, call.model) = {1, 2}
    /\ MoreSpecific(call.mapping[1].k, call.mapping[2].k)
    /\ call.mapping[1].v # call.mapping[2].v
    /\ call.result = Resolved(call.model, call.mapping[1].v)

----------------------------------------------------------------------------
\* The mappings merged: under the keys a and b, nothing, a number, or a
\* mapping of numbers under the same keys.
MergeLeaves == {JInt(1), JInt(2)}

\* The mappings on subsets of keys with values of vals.
MappingsOver(keys, vals) ==
    UNION {[s -> vals] : s \in SUBSET keys}

MergeInner == MappingsOver({"a", "b"}, MergeLeaves)

MergeMappings ==
    MappingsOver({"a", "b"}, MergeLeaves \cup {JDict(d) : d \in MergeInner})

\* The calls of _deep_merge_inplace, and of it again on what it left.
DeepMergeCalls(mappings) ==
    {[f |-> "_deep_merge_inplace", done |-> FALSE, base |-> base,
      updates |-> updates] :
        base \in mappings, updates \in mappings}

\* _deep_merge_inplace(base, updates) returns, twice.
CallDeepMerge ==
    /\ call.f = "_deep_merge_inplace"
    /\ ~call.done
    /\ \E merged \in {_deep_merge_inplace(call.base, call.updates)} :
           call' = [f |-> call.f, done |-> TRUE, base |-> call.base,
                    updates |-> call.updates, result |-> merged,
                    again |-> _deep_merge_inplace(merged, call.updates)]
    /\ UNCHANGED <<stream_vars, srv>>

----------------------------------------------------------------------------
\* C26: _deep_merge_inplace(base, updates) recurses for each key of updates
\* whose value is a mapping on both sides and replaces the value of base
\* otherwise; the keys of base that updates lacks keep their values; the
\* same updates merged a second time change nothing.

\* r is base with updates merged into it.
RECURSIVE IsMerge(_, _, _)
IsMerge(r, base, updates) ==
    /\ DOMAIN r = DOMAIN base \cup DOMAIN updates
    /\ \A k \in DOMAIN r :
           IF k \notin DOMAIN updates THEN r[k] = base[k]
           ELSE IF /\ updates[k].t = "dict"
                   /\ k \in DOMAIN base
                   /\ base[k].t = "dict"
           THEN r[k].t = "dict" /\ IsMerge(r[k].d, base[k].d, updates[k].d)
           ELSE r[k] = updates[k]

C26_DeepMerge ==
    call.f = "_deep_merge_inplace" /\ call.done =>
        /\ IsMerge(call.result, call.base, call.updates)
        /\ call.again = call.result

\* Both sides held a mapping under a, which were merged key by key, and a
\* number of base under b was kept.
C26_Witness ==
    /\ call.f = "_deep_merge_inplace"
    /\ call.done
    /\ call.base = [a |-> JDict([a |-> JInt(1), b |-> JInt(1)]), b |-> JInt(2)]
    /\ call.updates = [a |-> JDict([b |-> JInt(2)])]
    /\ call.result = [a |-> JDict([a |-> JInt(1), b |-> JInt(2)]),
                      b |-> JInt(2)]
    /\ call.again = call.result

----------------------------------------------------------------------------
\* The specification of the calls.

----------------------------------------------------------------------------
\* The SSE decoder.  A line is the characters of one text line, with or
\* without its newline.

S_data_prefix == <<"d", "a", "t", "a", ":">>

S_DONE == <<"[", "D", "O", "N", "E", "]">>

\* raw.rstrip("\n")
RECURSIVE RStripNewline(_)
RStripNewline(s) ==
    IF s # <<>> /\ s[Len(s)] = "\n"
    THEN RStripNewline(SubSeq(s, 1, Len(s) - 1)) ELSE s

\* "\n".join(data_buf)
RECURSIVE JoinLines(_)
JoinLines(buf) ==
    IF buf = <<>> THEN <<>>
    ELSE IF Len(buf) = 1 THEN buf[1]
    ELSE buf[1] \o <<"\n">> \o JoinLines(Tail(buf))

\* The events a buffer of data lines gives when it is parsed: the mapping
\* its joined payload holds, or none.
FlushBuffer(data_buf) ==
    LET payload == Strip(JoinLines(data_buf))
        ev == json_loads(payload)
    IN  IF payload = S_DONE THEN <<>>
        ELSE IF ev.ok /\ ev.value.t = "dict" THEN <<ev.value>>
        ELSE <<>>

\* The loop over the lines: the buffer and the events yielded after them.
RECURSIVE DecodeLines(_, _, _)
DecodeLines(lines, data_buf, yielded) ==
    IF lines = <<>> THEN [data_buf |-> data_buf, yielded |-> yielded]
    ELSE LET line == RStripNewline(Head(lines))
         IN  IF line = <<>>
             THEN IF data_buf = <<>>
                  THEN DecodeLines(Tail(lines), data_buf, yielded)
                  ELSE DecodeLines(Tail(lines), <<>>,
                                   yielded \o FlushBuffer(data_buf))
             ELSE IF StartsWith(line, S_data_prefix)
             THEN DecodeLines(Tail(lines),
                              Append(data_buf,
                                     LStrip(SubSeq(line, 6, Len(line)))),
                              yielded)
             ELSE DecodeLines(Tail(lines), data_buf, yielded)

\* The decoder without the flush of the trailing buffer.
iter_openai_sse_json_events_no_flush(lines) ==
    DecodeLines(lines, <<>>, <<>>).yielded

\* The events yielded for the lines, in order.
iter_openai_sse_json_events(lines) ==
    LET r == DecodeLines(lines, <<>>, <<>>)
    IN  IF r.data_buf # <<>> THEN r.yielded \o FlushBuffer(r.data_buf)
        ELSE r.yielded

\* The lines offered to the decoder.
L_blank ==
    <<"\n">>

L_data_a ==
    <<"d", "a", "t", "a", ":", " ", "{", "\"", "a", "\"", ":", "1", "}",
      "\n">>

L_data_open ==
    <<"d", "a", "t", "a", ":", "{", "\n">>

L_data_close ==
    <<"d", "a", "t", "a", ":", " ", "}", "\n">>

L_data_done ==
    <<"d", "a", "t", "a", ":", " ", "[", "D", "O", "N", "E", "]", "\n">>

L_data_list ==
    <<"d", "a", "t", "a", ":", " ", "[", "1", "]", "\n">>

L_event ==
    <<"e", "v", "e", "n", "t", ":", " ", "x", "\n">>

L_data_b ==
    <<"d", "a", "t", "a", ":", "{", "\"", "b", "\"", ":", "2", "}">>

SseLines ==
    {L_blank, L_data_a, L_data_open, L_data_close, L_data_done, L_data_list,
     L_event, L_data_b}

MaxLines == 3

\* The inputs of at most n lines.
LinesUpTo(n) == UNION {[1..k -> SseLines] : k \in 0..n}

SseDecodeCalls(n) ==
    {[f |-> "iter_openai_sse_json_events", done |-> FALSE, lines |-> ls,
      result |-> <<>>] : ls \in LinesUpTo(n)}

CallSseDecode ==
    /\ call.f = "iter_openai_sse_json_events"
    /\ ~call.done
    /\ call' = [f |-> call.f, done |-> TRUE, lines |-> call.lines,
                result |-> iter_openai_sse_json_events(call.lines)]
    /\ UNCHANGED <<stream_vars, srv>>

\* C27: the decoder yields exactly the events of the input whose joined data
\* payload parses to a JSON mapping, in input order, an event being the lines
\* up to a blank line or up to the end of the input: a malformed payload, a
\* payload that is no mapping and [DONE] are skipped and change no later
\* event, and the lines after the last blank line are parsed and yielded too.
IsBlankLine(lines, i) == RStripNewline(lines[i]) = <<>>

\* The positions where an event ends: the blank lines, and the end.
EventEnds(lines) ==
    {i \in 1..Len(lines) : IsBlankLine(lines, i)} \cup {Len(lines) + 1}

\* The first line of the event that ends at e.
EventStart(lines, e) ==
    LET before == {i \in 1..(e - 1) : IsBlankLine(lines, i)}
    IN  IF before = {} THEN 1
        ELSE (CHOOSE i \in before : \A j \in before : j <= i) + 1

\* The payload of the event that ends at e: what follows data: on its data
\* lines, joined by newlines.
EventPayload(lines, e) ==
    LET idx == [i \in 1..(e - EventStart(lines, e)) |->
                    RStripNewline(lines[EventStart(lines, e) + i - 1])]
        data == SelectSeq(idx, LAMBDA l : StartsWith(l, S_data_prefix))
    IN  Strip(JoinLines([i \in 1..Len(data) |->
                             LStrip(SubSeq(data[i], 6, Len(data[i])))]))

IsMappingPayload(p) ==
    /\ p # S_DONE
    /\ json_loads(p).ok
    /\ json_loads(p).value.t = "dict"

\* The mappings of the events of the input, in input order.
ExpectedEvents(lines) ==
    LET ends == [e \in 1..(Len(lines) + 1) |-> e]
        good == SelectSeq(ends, LAMBDA e :
                    /\ e \in EventEnds(lines)
                    /\ IsMappingPayload(EventPayload(lines, e)))
    IN  [i \in 1..Len(good) |-> json_loads(EventPayload(lines, good[i])).value]

C27_DecoderYieldsMappingEvents ==
    (call.f = "iter_openai_sse_json_events" /\ call.done)
        => call.result = ExpectedEvents(call.lines)

\* A malformed event, then a blank line, then an event that no blank line
\* ends: the second is yielded.
C27_Witness ==
    /\ call.f = "iter_openai_sse_json_events"
    /\ call.done
    /\ call.lines = <<L_data_open, L_blank, L_data_b>>
    /\ call.result = <<JDict("b" :> JInt(2))>>

----------------------------------------------------------------------------
\* The scrubber on nested values.

ScrubLeaves == {JStr(<<"s">>), JInt(1)}

\* The keys offered: the three masked names in several cases, a plain key
\* and a key that only starts like a masked one.
ScrubKeys == {"Authorization", "API_KEY", "x-openai-api-key", "x", "api_keys"}

MaxDepth == 3

\* What is built around the values `inner`: mappings of one key, mappings
\* of a masked and a plain key, lists of one and of two elements.
ValuesAround(inner) ==
    inner
        \cup {JDict(k :> v) : k \in ScrubKeys, v \in inner}
        \cup {JDict(("API_KEY" :> JInt(1)) @@ ("x" :> v)) : v \in inner}
        \cup {JList(<<v>>) : v \in inner}
        \cup {JList(<<JInt(1), v>>) : v \in inner}

\* The values nested at most n deep.
RECURSIVE ValuesUpTo(_)
ValuesUpTo(n) ==
    IF n = 0 THEN ScrubLeaves ELSE ValuesAround(ValuesUpTo(n - 1))

ScrubCalls(n) ==
    {[f |-> "_scrub_payload", done |-> FALSE, data |-> v, result |-> JNone,
      again |-> JNone] : v \in ValuesUpTo(n)}

CallScrub ==
    /\ call.f = "_scrub_payload"
    /\ ~call.done
    /\ \E scrubbed \in {_scrub_payload(call.data)} :
           call' = [f |-> call.f, done |-> TRUE, data |-> call.data,
                    result |-> scrubbed, again |-> _scrub_payload(scrubbed)]
    /\ UNCHANGED <<stream_vars, srv>>

\* C28: scrubbing a scrubbed value gives the same value; the value of every
\* key named authorization, api_key or x-openai-api-key, in any case, is
\* replaced by "***" at every depth of nested mappings and lists; every
\* other value is returned unchanged.
MaskedNames ==
    {"authorization", "Authorization", "api_key", "API_KEY",
     "x-openai-api-key", "X-OpenAI-Api-Key"}

\* y is x with the values of the masked names replaced, and nothing else.
RECURSIVE IsScrubbed(_, _)
IsScrubbed(x, y) ==
    CASE x.t = "dict" ->
            /\ y.t = "dict"
            /\ DOMAIN y.d = DOMAIN x.d
            /\ \A k \in DOMAIN x.d :
                   IF k \in MaskedNames THEN y.d[k] = Masked
                   ELSE IsScrubbed(x.d[k], y.d[k])
      [] x.t = "list" ->
            /\ y.t = "list"
            /\ Len(y.l) = Len(x.l)
            /\ \A i \in 1..Len(x.l) : IsScrubbed(x.l[i], y.l[i])
      [] OTHER -> y = x

C28_ScrubberMasksAndIsIdempotent ==
    (call.f = "_scrub_payload" /\ call.done)
        => /\ IsScrubbed(call.data, call.result)
           /\ call.again = call.result

\* A masked name in upper case inside a mapping inside a list inside a
\* mapping, next to a plain key whose value is kept.
C28_Witness ==
    /\ call.f = "_scrub_payload"
    /\ call.done
    /\ call.data =
           JDict("x" :> JList(<<JDict(("API_KEY" :> JInt(1))
                                      @@ ("x" :> JStr(<<"s">>)))>>))
    /\ call.result =
           JDict("x" :> JList(<<JDict(("API_KEY" :> Masked)
                                      @@ ("x" :> JStr(<<"s">>)))>>))

----------------------------------------------------------------------------
\* The items of the request transform, for messages of text, tool_use,
\* tool_result and unknown blocks.

B_text == JDict([type |-> JStr(S_text), text |-> JStr(<<"A">>)])

B_tool_use ==
    JDict([type |-> JStr(S_tool_use), id |-> JStr(<<"t", "1">>),
           name |-> JStr(<<"f">>), input |-> JDict("a" :> JInt(1))])

B_tool_result ==
    JDict([type |-> JStr(S_tool_result), tool_use_id |-> JStr(<<"t", "1">>),
           content |-> JStr(<<"r">>)])

B_unknown == JDict([type |-> JStr(<<"x">>)])

ContentBlocks == {B_text, B_tool_use, B_tool_result, B_unknown}

MaxBlocks == 3

\* The contents of at most n blocks.
ContentsUpTo(n) == UNION {[1..k -> ContentBlocks] : k \in 0..n}

Roles == {JStr(S_user), JStr(S_assistant), JStr(S_system)}

\* The first message of a call: a role and a list of blocks, a message whose
\* content is a string, or a value that is no mapping.
FirstMessages(n) ==
    {JDict([role |-> r, content |-> JList(bs)]) :
         r \in Roles, bs \in ContentsUpTo(n)}
        \cup {JDict([role |-> JStr(S_user), content |-> JStr(<<"A">>)]),
              JStr(<<"m">>)}

\* The messages that may follow it: a tool_use without id and input, tool
\* results whose content is a list or missing, and a system message.
LaterMessages ==
    {JDict([role |-> JStr(S_assistant),
            content |-> JList(<<JDict([type |-> JStr(S_tool_use),
                                       name |-> JStr(<<"g">>)]),
                                JDict([type |-> JStr(S_text),
                                       text |-> JStr(<<"B">>)])>>)]),
     JDict([role |-> JStr(S_user),
            content |-> JList(<<JDict([type |-> JStr(S_tool_result),
                                       tool_use_id |-> JStr(<<"t", "2">>),
                                       content |-> JList(<<B_text>>)]),
                                JDict([type |-> JStr(S_tool_result)])>>)]),
     JDict([role |-> JStr(S_system), content |-> JList(<<B_text>>)])}

ItemsCalls(n) ==
    {[f |-> "anthropic_messages_to_openai_items", done |-> FALSE,
      messages |-> ms, uuids |-> UuidsOf(digit), result |-> <<>>] :
         ms \in {<<m>> : m \in FirstMessages(n)}
                    \cup {<<m, l>> : m \in FirstMessages(n),
                                     l \in LaterMessages},
         digit \in {"a", "b"}}

CallItems ==
    /\ call.f = "anthropic_messages_to_openai_items"
    /\ ~call.done
    /\ call' = [f |-> call.f, done |-> TRUE, messages |-> call.messages,
                uuids |-> call.uuids,
                result |-> anthropic_messages_to_openai_items(call.messages,
                                                              call.uuids)]
    /\ UNCHANGED <<stream_vars, srv>>

\* C30: the items keep the order of the content blocks of each message: a
\* tool_use or tool_result block gives its function_call or
\* function_call_output item, preceded by one message item of the parts
\* collected since the last such block when there are any; the parts left at
\* the end of the message give one message item; a message whose role is
\* neither user nor assistant gives no item.
IsToolContentBlock(block) ==
    Get(block.d, "type") \in {JStr(S_tool_use), JStr(S_tool_result)}

\* What the blocks of a message of this role give from block i on: a tool
\* block, or a run of other blocks that ends before a tool block or at the
\* end of the message.
RECURSIVE PiecesFrom(_, _, _)
PiecesFrom(role, blocks, i) ==
    LET tools_before == {j \in 1..(i - 1) : IsToolContentBlock(blocks[j])}
        run_start == IF tools_before = {} THEN 1
                     ELSE (CHOOSE j \in tools_before :
                               \A x \in tools_before : x <= j) + 1
        piece == IF IsToolContentBlock(blocks[i])
                 THEN <<[kind |-> "tool", block |-> blocks[i]]>>
                 ELSE IF i = Len(blocks) \/ IsToolContentBlock(blocks[i + 1])
                 THEN <<[kind |-> "message", role |-> role,
                         blocks |-> SubSeq(blocks, run_start, i)]>>
                 ELSE <<>>
    IN  IF i > Len(blocks) THEN <<>>
        ELSE piece \o PiecesFrom(role, blocks, i + 1)

\* The blocks of a message, as the source reads its content.
BlocksOf(msg) ==
    LET content == Get(msg.d, "content")
    IN  IF content.t = "list" THEN content.l
        ELSE IF content.t = "str"
        THEN <<JDict([type |-> JStr(S_text), text |-> content])>>
        ELSE <<>>

RECURSIVE ExpectedPieces(_)
ExpectedPieces(messages) ==
    IF messages = <<>> THEN <<>>
    ELSE LET msg == Head(messages)
         IN  (IF /\ msg.t = "dict"
                 /\ Get(msg.d, "role") \in {JStr(S_user), JStr(S_assistant)}
              THEN PiecesFrom(Get(msg.d, "role"), BlocksOf(msg), 1)
              ELSE <<>>) \o ExpectedPieces(Tail(messages))

\* The part of a message item that a block other than a tool block gives.
PartMatches(part, block, role) ==
    /\ Get(part.d, "type") =
           JStr(IF role = JStr(S_user) THEN S_input_text ELSE S_output_text)
    /\ Get(block.d, "type") = JStr(S_text)
           => Get(part.d, "text") = Get(block.d, "text")

ItemMatches(item, piece) ==
    IF piece.kind = "message"
    THEN /\ Get(item.d, "type") = JStr(S_message)
         /\ Get(item.d, "role") = piece.role
         /\ Len(Get(item.d, "content").l) = Len(piece.blocks)
         /\ \A j \in 1..Len(piece.blocks) :
                PartMatches(Get(item.d, "content").l[j], piece.blocks[j],
                            piece.role)
    ELSE IF Get(piece.block.d, "type") = JStr(S_tool_use)
    THEN /\ Get(item.d, "type") = JStr(S_function_call)
         /\ Get(item.d, "name") = Get(piece.block.d, "name")
                \/ "name" \notin DOMAIN piece.block.d
         /\ "id" \in DOMAIN piece.block.d
                => Get(item.d, "call_id") = Get(piece.block.d, "id")
    ELSE /\ Get(item.d, "type") = JStr(S_function_call_output)
         /\ "tool_use_id" \in DOMAIN piece.block.d
                => Get(item.d, "call_id") = Get(piece.block.d, "tool_use_id")

C30_ItemsKeepBlockOrder ==
    (call.f = "anthropic_messages_to_openai_items" /\ call.done)
        => LET expected == ExpectedPieces(call.messages)
           IN  /\ Len(call.result) = Len(expected)
               /\ \A i \in 1..Len(expected) :
                      ItemMatches(call.result[i], expected[i])

\* An assistant message of a text, a tool_use and a text, then a system
\* message: a message item, a function_call item and a message item.
C30_Witness ==
    /\ call.f = "anthropic_messages_to_openai_items"
    /\ call.done
    /\ call.messages =
           <<JDict([role |-> JStr(S_assistant),
                    content |-> JList(<<B_text, B_tool_use, B_text>>)]),
             JDict([role |-> JStr(S_system), content |-> JList(<<B_text>>)])>>
    /\ Len(call.result) = 3
    /\ Get(call.result[1].d, "type") = JStr(S_message)
    /\ Get(call.result[2].d, "type") = JStr(S_function_call)
    /\ Get(call.result[3].d, "type") = JStr(S_message)

----------------------------------------------------------------------------
\* The request transform on bounded requests.

\* The values of the fields of a request (JNone: the key is absent): model
\* names; max_tokens as an integer, a string or a boolean; temperature and
\* top_p as numbers or a string; stream as a boolean or a string.
RequestModels == {JNone, JStr(M_cs), JStr(M_zz)}
RequestMaxTokens == {JNone, JInt(1), JInt(2), JStr(<<"1">>), JBool(TRUE)}
RequestTemperatures == {JNone, JInt(0), JInt(1), JStr(<<"1">>)}
RequestTopPs == {JNone, JInt(0), JInt(1)}
RequestStreams == {JNone, JBool(TRUE), JBool(FALSE), JStr(<<"1">>)}

RequestCalls(models) ==
    {[f |-> "convert_anthropic_to_openai_request", done |-> FALSE,
      payload |-> PayloadOf(<<"model", "max_tokens", "temperature", "top_p",
                              "stream", "messages">>,
                            [model |-> m, max_tokens |-> n, temperature |-> t,
                             top_p |-> p, stream |-> s,
                             messages |->
                                 JList(<<JDict([role |-> JStr(S_user),
                                                content |-> JStr(<<"B">>)])>>)]),
      result |-> <<>>] :
         m \in models, n \in RequestMaxTokens, t \in RequestTemperatures,
         p \in RequestTopPs, s \in RequestStreams}

CallRequest ==
    /\ call.f = "convert_anthropic_to_openai_request"
    /\ ~call.done
    /\ call' = [f |-> call.f, done |-> TRUE, payload |-> call.payload,
                result |-> convert_anthropic_to_openai_request(call.payload)]
    /\ UNCHANGED <<stream_vars, srv>>

\* A valid Anthropic request: model is a string and max_tokens an integer
\* (both are required); temperature and top_p are numbers and stream is a
\* boolean when they are there.
ValidRequest(payload) ==
    /\ Get(payload, "model").t = "str"
    /\ Get(payload, "max_tokens").t = "int"
    /\ Get(payload, "temperature").t \in {"null", "int"}
    /\ Get(payload, "top_p").t \in {"null", "int"}
    /\ Get(payload, "stream").t \in {"null", "bool"}

\* Field `to` of the request made reflects field `from` of the payload:
\* there with the same value, or absent from both.
Reflects(payload, from, made, to) ==
    IF from \in DOMAIN payload
    THEN to \in DOMAIN made /\ made[to] = payload[from]
    ELSE to \notin DOMAIN made

\* C31: for a valid Anthropic request, the fields model, temperature,
\* top_p, stream and max_output_tokens of the Responses request reflect the
\* fields model, temperature, top_p, stream and max_tokens of the request
\* one to one: there with the same value when the request has the field,
\* absent when it has not.
C31_RequestFieldsReflected ==
    (/\ call.f = "convert_anthropic_to_openai_request"
     /\ call.done
     /\ ValidRequest(call.payload))
        => /\ Reflects(call.payload, "model", call.result, "model")
           /\ Reflects(call.payload, "temperature", call.result, "temperature")
           /\ Reflects(call.payload, "top_p", call.result, "top_p")
           /\ Reflects(call.payload, "stream", call.result, "stream")
           /\ Reflects(call.payload, "max_tokens", call.result,
                       "max_output_tokens")

\* A valid request with a temperature and stream false, without top_p.
C31_Witness ==
    /\ call.f = "convert_anthropic_to_openai_request"
    /\ call.done
    /\ ValidRequest(call.payload)
    /\ DOMAIN call.payload =
           {"model", "max_tokens", "temperature", "stream", "messages"}
    /\ call.payload["stream"] = JBool(FALSE)
    /\ call.result["stream"] = JBool(FALSE)
    /\ call.result["temperature"] = JInt(0)
    /\ call.result["max_output_tokens"] = JInt(2)
    /\ "top_p" \notin DOMAIN call.result

----------------------------------------------------------------------------
\* The batch response transform on bounded response objects.

\* The values of the fields of a response object (JNone: the key is
\* absent): the output is empty, a message, a function call, a message
\* before a custom tool call, or a function call before a message.
ResponseIds == {JNone, JStr(<<"r", "1">>)}
ResponseModels == {JNone, JStr(M_g5)}
O_message ==
    JDict([type |-> JStr(S_message), role |-> JStr(S_assistant),
           content |-> JList(<<JDict([type |-> JStr(S_output_text),
                                      text |-> JStr(<<"B">>)])>>)])
O_function_call ==
    JDict([type |-> JStr(S_function_call), call_id |-> JStr(<<"c", "1">>),
           name |-> JStr(<<"f">>), arguments |-> JStr(S_empty_object)])
O_custom_tool_call ==
    JDict([type |-> JStr(S_custom_tool_call), call_id |-> JStr(<<"c", "2">>),
           name |-> JStr(<<"g">>), input |-> JStr(<<"A">>)])
ResponseOutputs ==
    {JNone, JList(<<>>), JList(<<O_message>>), JList(<<O_function_call>>),
     JList(<<O_message, O_custom_tool_call>>),
     JList(<<O_function_call, O_message>>)}
ResponseIncompleteDetails ==
    {JNone, JDict([reason |-> JStr(S_max_tokens)]),
     JDict([reason |-> JStr(<<"f">>)])}
ResponseSummaries == {JNone, JStr(<<"R">>)}
ResponseUsages ==
    {JNone, JDict([input_tokens |-> JInt(1), output_tokens |-> JInt(2)])}

\* The response objects: mappings, and values that are not mappings.
ResponseObjects(ids) ==
    {JNone, JList(<<>>), JStr(<<"x">>)} \cup
    { JDict(PayloadOf(<<"id", "model", "output", "incomplete_details",
                        "reasoning_summary", "usage">>,
                      [id |-> i, model |-> m, output |-> o,
                       incomplete_details |-> n, reasoning_summary |-> r,
                       usage |-> u])) :
        i \in ids, m \in ResponseModels, o \in ResponseOutputs,
        n \in ResponseIncompleteDetails, r \in ResponseSummaries,
        u \in ResponseUsages }

ResponseCalls(ids) ==
    {[f |-> "_openai_response_to_anthropic_message", done |-> FALSE,
      resp |-> resp, result |-> JNone] : resp \in ResponseObjects(ids)}

CallResponse ==
    /\ call.f = "_openai_response_to_anthropic_message"
    /\ ~call.done
    /\ call' = [f |-> call.f, done |-> TRUE, resp |-> call.resp,
                result |-> _openai_response_to_anthropic_message(call.resp)]
    /\ UNCHANGED <<stream_vars, srv>>

\* C32: the message of the batch response transform has the model of the
\* upstream response, and "unknown" when the upstream response has none.
C32_ModelOrUnknown ==
    (call.f = "_openai_response_to_anthropic_message" /\ call.done)
        => Get(call.result.d, "model") =
               IF call.resp.t = "dict" /\ "model" \in DOMAIN call.resp.d
               THEN call.resp.d["model"] ELSE JStr(S_unknown)

\* C33: with thinking enabled, a response object with a non-empty top-level
\* reasoning_summary gives a message whose content has a thinking block of
\* that summary.  (The transform of the source takes the response object
\* alone: no call of it has thinking enabled or disabled.)
C33_SummaryGivesThinkingBlock ==
    (/\ call.f = "_openai_response_to_anthropic_message"
     /\ call.done
     /\ call.resp.t = "dict"
     /\ Get(call.resp.d, "reasoning_summary").t = "str"
     /\ Get(call.resp.d, "reasoning_summary").s # <<>>)
        => \E i \in 1..Len(Get(call.result.d, "content").l) :
               LET block == Get(call.result.d, "content").l[i]
               IN  /\ Get(block.d, "type") = JStr(S_thinking)
                   /\ Get(block.d, "thinking") =
                          Get(call.resp.d, "reasoning_summary")

----------------------------------------------------------------------------
\* The item transform on bounded item lists.

\* Items of a list.
MaxItems == 3

\* The items: messages of the assistant and of the user, messages without
\* content, a system message, a message of another role, a reasoning item,
\* a function call and its output, and an item that is not a mapping.
I_user ==
    JDict([type |-> JStr(S_message), role |-> JStr(S_user),
           content |-> JStr(<<"A">>)])
I_assistant_empty ==
    JDict([type |-> JStr(S_message), role |-> JStr(S_assistant),
           content |-> JList(<<>>)])
I_user_empty == JDict([role |-> JStr(S_user), content |-> JNone])
I_system ==
    JDict([type |-> JStr(S_message), role |-> JStr(S_system),
           content |-> JStr(<<"C">>)])
I_tool_role ==
    JDict([type |-> JStr(S_message), role |-> JStr(S_tool),
           content |-> JStr(<<"D">>)])
I_reasoning == JDict([type |-> JStr(S_reasoning), summary |-> JStr(<<"R">>)])
I_function_call_output ==
    JDict([type |-> JStr(S_function_call_output),
           call_id |-> JStr(<<"c", "1">>), output |-> JStr(<<"E">>)])
OutputItems ==
    {O_message, I_user, I_assistant_empty, I_user_empty, I_system,
     I_tool_role, I_reasoning, O_function_call, I_function_call_output, JStr(<<"i">>)}

ItemListsUpTo(n) == UNION {[1..k -> OutputItems] : k \in 0..n}

MessagesCalls(n) ==
    {[f |-> "openai_items_to_anthropic_messages", done |-> FALSE,
      items |-> items, keep_reasoning |-> k[1],
      keep_reasoning_summary |-> k[2],
      result |-> [system |-> JNone, messages |-> <<>>]] :
         items \in ItemListsUpTo(n),
         k \in {<<FALSE, FALSE>>, <<TRUE, FALSE>>, <<FALSE, TRUE>>}}

CallMessages ==
    /\ call.f = "openai_items_to_anthropic_messages"
    /\ ~call.done
    /\ call' = [call EXCEPT
                  !.done = TRUE,
                  !.result = openai_items_to_anthropic_messages(
                                 call.items, JNone, call.keep_reasoning,
                                 call.keep_reasoning_summary)]
    /\ UNCHANGED <<stream_vars, srv>>

\* What one item alone gives: no message when it targets no role, else one
\* message of the role it targets.
Contribution(item, kr, ks) ==
    ItemToMessages([system |-> JNone, messages |-> <<>>], item, kr, ks).messages

\* What the items give, one by one.
Contributions(items, kr, ks) ==
    [i \in 1..Len(items) |-> Contribution(items[i], kr, ks)]

\* The positions of the items that target a role, cs being what the items
\* give one by one.
Targeting(cs) == {i \in 1..Len(cs) : cs[i] # <<>>}

\* Position i starts a run: it targets a role, and the item that targets a
\* role before it, if any, targets another one.
StartsRun(cs, i) ==
    /\ i \in Targeting(cs)
    /\ LET before == {j \in Targeting(cs) : j < i}
       IN  before # {}
               => cs[CHOOSE j \in before : \A x \in before : x <= j][1].role
                      # cs[i][1].role

\* The blocks of the run of role `role` from position i on.
RECURSIVE RunContent(_, _, _)
RunContent(cs, role, i) ==
    IF i > Len(cs) THEN <<>>
    ELSE IF cs[i] = <<>> THEN RunContent(cs, role, i + 1)
    ELSE IF cs[i][1].role # role THEN <<>>
    ELSE cs[i][1].content \o RunContent(cs, role, i + 1)

\* One message for every run, in order, the runs without blocks left out.
RunMessages(cs) ==
    SelectSeq([i \in 1..Len(cs) |->
                   IF StartsRun(cs, i)
                   THEN [role |-> cs[i][1].role,
                         content |-> RunContent(cs, cs[i][1].role, i)]
                   ELSE [role |-> <<>>, content |-> <<>>]],
              LAMBDA m : m.content # <<>>)

ExpectedMessages(items, kr, ks) == RunMessages(Contributions(items, kr, ks))

\* C34: consecutive items that target the same role are appended to one
\* message (the returned messages are those of the runs of items of one
\* role, each with the blocks of its items in order), and no returned
\* message has empty content.
C34_SameRoleCoalescedNoEmptyMessage ==
    (call.f = "openai_items_to_anthropic_messages" /\ call.done)
        => /\ call.result.messages =
                  ExpectedMessages(call.items, call.keep_reasoning,
                                   call.keep_reasoning_summary)
           /\ \A i \in 1..Len(call.result.messages) :
                  call.result.messages[i].content # <<>>

\* A message of the assistant and a function call give one message of two
\* blocks; the user message without content after them gives none.
C34_Witness ==
    /\ call.f = "openai_items_to_anthropic_messages"
    /\ call.done
    /\ call.items = <<O_message, O_function_call, I_user_empty>>
    /\ Len(call.result.messages) = 1
    /\ call.result.messages[1].role = S_assistant
    /\ Len(call.result.messages[1].content) = 2

----------------------------------------------------------------------------
\* The two derivations of the stop reason on the same response object.

\* The streaming transform reads one terminal event carrying the response;
\* the batch transform is given the response.
StopReasonCalls(ids) ==
    {[f |-> "stop_reason", done |-> FALSE, type |-> t, resp |-> resp,
      events |-> <<>>, batch |-> <<>>] :
         t \in TerminalTypes, resp \in ResponseObjects(ids)}

CallStopReason ==
    /\ call.f = "stop_reason"
    /\ ~call.done
    /\ call' = [call EXCEPT
                  !.done = TRUE,
                  !.events = IterAnthropicEvents(
                                 <<JDict([type |-> call.type,
                                          response |-> call.resp])>>,
                                 S_unknown),
                  !.batch = _openai_stop_reason(call.resp)]
    /\ UNCHANGED <<stream_vars, srv>>

\* The characters of a stop reason of the streaming transform.
StopReasonText(stop_reason) ==
    CASE stop_reason = "max_tokens" -> S_max_tokens
      [] stop_reason = "tool_use" -> S_tool_use
      [] stop_reason = "end_turn" -> S_end_turn
      [] OTHER -> <<>>

\* The stop reasons of the message_delta events of a stream.
StreamStopReasons(events) ==
    {StopReasonText(events[k].delta.stop_reason) :
         k \in {i \in 1..Len(events) : events[i].type = "message_delta"}}

InitCalls ==
    /\ st = NewStreamState
    /\ out = <<>>
    /\ pc = "loop"
    /\ keep_reasoning_summary = FALSE
    /\ inp = <<>>
    /\ src = <<>>
    /\ srv = NoServer
    /\ \/ call \in MapModelCalls(MaxMapEntries)
       \/ call \in DeepMergeCalls(MergeMappings)
       \/ call \in SseDecodeCalls(MaxLines)
       \/ call \in ScrubCalls(MaxDepth)
       \/ call \in ItemsCalls(MaxBlocks)
       \/ call \in RequestCalls(RequestModels)
       \/ call \in ResponseCalls(ResponseIds)
       \/ call \in MessagesCalls(MaxItems)
       \/ call \in StopReasonCalls(ResponseIds)

NextCalls ==
    \/ CallMapModel
    \/ CallDeepMerge
    \/ CallSseDecode
    \/ CallScrub
    \/ CallItems
    \/ CallRequest
    \/ CallResponse
    \/ CallMessages
    \/ CallStopReason

SpecCalls == InitCalls /\ [][NextCalls]_vars

----------------------------------------------------------------------------
\* The model map cache and the requests that share it, with the mappings
\* as the objects they are in the source: a mapping is an object of the
\* heap, a value that is a mapping is a reference to its object, and
\* _deep_merge_inplace changes objects.  SpecCache runs requests against
\* one process: srv is its heap, its file, its cache (_MODEL_MAP_CACHE),
\* the number of requests served and the request last posted.

\* Requests served by one process.
MaxRequests == 2

\* A reference to the mapping object at position id of the heap.
Ref(id) == [t |-> "ref", id |-> id]

\* The value v as objects: its mappings are allocated on the heap h, the
\* innermost first, and v becomes a reference when it is a mapping.
RECURSIVE AllocValue(_, _)
RECURSIVE AllocMembers(_, _, _, _)
RECURSIVE MemberAllocated(_, _, _, _, _)

NewObject(r) ==
    [heap |-> Append(r.heap, r.dict), value |-> Ref(Len(r.heap) + 1)]

AllocValue(h, v) ==
    IF v.t # "dict" THEN [heap |-> h, value |-> v]
    ELSE NewObject(AllocMembers(h, v.d, DOMAIN v.d, <<>>))

MemberAllocated(d, keys, acc, k, r) ==
    AllocMembers(r.heap, d, keys, Put(acc, k, r.value))

AllocMembers(h, d, keys, acc) ==
    IF keys = {} THEN [heap |-> h, dict |-> acc]
    ELSE LET k == CHOOSE x \in keys : TRUE
         IN  MemberAllocated(d, keys \ {k}, acc, k, AllocValue(h, d[k]))

\* The value behind v on the heap h, references followed.
RECURSIVE DeepValue(_, _)
DeepValue(h, v) ==
    IF v.t = "ref"
    THEN JDict([k \in DOMAIN h[v.id] |-> DeepValue(h, h[v.id][k])])
    ELSE IF v.t = "dict"
    THEN JDict([k \in DOMAIN v.d |-> DeepValue(h, v.d[k])])
    ELSE v

\* The entries _get_model_map keeps, their values as objects.
RECURSIVE AllocEntries(_, _, _)
EntryAllocated(rest, acc, k, r) ==
    AllocEntries(r.heap, rest, Append(acc, [k |-> k, v |-> r.value]))

AllocEntries(h, entries, acc) ==
    IF entries = <<>> THEN [heap |-> h, map |-> acc]
    ELSE EntryAllocated(Tail(entries), acc, Head(entries).k,
                        AllocValue(h, Head(entries).v))

\* _get_model_map() on the heap: the cached mapping, or the file read, its
\* values allocated, and cached.
GetModelMapOnHeap(h, cache, file) ==
    IF cache # NoneRec THEN [heap |-> h, map |-> cache.map]
    ELSE AllocEntries(h, _get_model_map(NoneRec, file), <<>>)

\* dict(_get_model_map()) as _map_model_and_extras reads it: the values
\* that are mappings with their keys, the values under the keys still
\* references.
MappingView(h, map) ==
    [i \in 1..Len(map) |->
        [k |-> map[i].k,
         v |-> IF map[i].v.t = "ref" THEN JDict(h[map[i].v.id])
               ELSE map[i].v]]

\* _deep_merge_inplace(base, updates) on the heap, base and updates being
\* the positions of two objects: the heap after the keys of `keys`.
RECURSIVE MergeKeys(_, _, _, _)

\* The merge that updates the mapping of the updates with that of the base
\* and then stores it in the base.
MergeKeyIntoUpdates(h, base, updates, k) ==
    LET v == h[updates][k]
    IN  IF v.t = "ref" /\ Get(h[base], k).t = "ref"
        THEN [MergeKeys(h, v.id, h[base][k].id, DOMAIN h[h[base][k].id])
                 EXCEPT ![base] = Put(@, k, v)]
        ELSE [h EXCEPT ![base] = Put(@, k, v)]

\* One turn of the loop over updates.items().
MergeKey(h, base, updates, k) ==
    LET v == h[updates][k]
    IN  IF v.t = "ref" /\ Get(h[base], k).t = "ref"
        THEN MergeKeys(h, h[base][k].id, v.id, DOMAIN h[v.id])
        ELSE [h EXCEPT ![base] = Put(@, k, v)]

MergeKeys(h, base, updates, keys) ==
    IF keys = {} THEN h
    ELSE LET k == CHOOSE x \in keys : TRUE
         IN  MergeKeys(MergeKey(h, base, updates, k), base, updates,
                       keys \ {k})

\* create_message from the request transform to store = False, the
\* request and the extras being objects: the heap, the cache and the
\* request posted (None when the model is missing).
MergedRequest(h, map, req, mapped) ==
    LET h1 == [h EXCEPT ![req] = Put(@, "model", mapped.model)]
        h2 == IF DOMAIN mapped.extra # {}
              THEN MergeKeys(Append(h1, mapped.extra), req, Len(h1) + 1,
                             DOMAIN mapped.extra)
              ELSE h1
        h3 == [h2 EXCEPT ![req] = Put(@, "store", JBool(FALSE))]
    IN  IF ~Truthy(Get(h2[req], "model"))
        THEN [heap |-> h2, map |-> map, posted |-> JNone]
        ELSE [heap |-> h3, map |-> map, posted |-> DeepValue(h3, Ref(req))]

RequestAllocated(map, r) ==
    MergedRequest(r.heap, map, r.value.id,
                  _map_model_and_extras(Get(r.heap[r.value.id], "model"),
                                        MappingView(r.heap, map)))

MapLoaded(payload, loaded) ==
    RequestAllocated(loaded.map,
                     AllocValue(loaded.heap,
                                JDict(convert_anthropic_to_openai_request(
                                          payload))))

CreateMessageOnHeap(h, cache, file, payload) ==
    MapLoaded(payload, GetModelMapOnHeap(h, cache, file))

\* Model map files whose extras hold mappings at two depths.
S_auto == <<"a", "u", "t", "o">>
CacheFiles ==
    { [exists |-> FALSE, entries |-> <<>>],
      [exists |-> TRUE,
       entries |-> << [k |-> M_cs,
                       v |-> JDict([model |-> JStr(M_g5),
                                    tool_choice |->
                                        JDict([mode |-> JStr(<<"x">>)]),
                                    text |-> JDict([format |->
                                        JDict([type |-> JStr(<<"j">>)])])])],
                      [k |-> <<"*">>, v |-> JStr(M_g4)] >>],
      [exists |-> TRUE,
       entries |-> << [k |-> <<"c", "*">>,
                       v |-> JDict([tool_choice |->
                                        JDict([type |-> JStr(<<"n">>)])])] >>] }

\* The payloads: with or without a model, and with or without a
\* tool_choice, which is a mapping passed on or a mapping converted.
CachePayloads ==
    { PayloadOf(<<"model", "tool_choice">>, [model |-> m, tool_choice |-> c]) :
        m \in {JNone, JStr(M_cs), JStr(M_zz)},
        c \in {JNone, JDict([type |-> JStr(S_auto)]),
               JDict([type |-> JStr(S_tool), name |-> JStr(<<"f">>)])} }

InitCache ==
    /\ st = NewStreamState
    /\ out = <<>>
    /\ pc = "loop"
    /\ keep_reasoning_summary = FALSE
    /\ inp = <<>>
    /\ src = <<>>
    /\ call = NoCall
    /\ \E file \in CacheFiles :
           srv = [pc |-> "cache", heap |-> <<>>, file |-> file,
                  cache |-> NoneRec, requests |-> 0, posted |-> JNone]

\* POST /v1/messages, up to the request posted.
CacheCreateMessage ==
    /\ srv.pc = "cache"
    /\ srv.requests < MaxRequests
    /\ \E payload \in CachePayloads :
           \E r \in {CreateMessageOnHeap(srv.heap, srv.cache, srv.file,
                                         payload)} :
               srv' = [srv EXCEPT !.heap = r.heap,
                                  !.cache = [map |-> r.map],
                                  !.posted = r.posted,
                                  !.requests = @ + 1]
    /\ UNCHANGED <<stream_vars, call>>

\* The file is rewritten.
CacheWriteFile ==
    /\ srv.pc = "cache"
    /\ \E file \in CacheFiles : srv' = [srv EXCEPT !.file = file]
    /\ UNCHANGED <<stream_vars, call>>

\* _MODEL_MAP_CACHE = None
CacheReset ==
    /\ srv.pc = "cache"
    /\ srv' = [srv EXCEPT !.cache = NoneRec]
    /\ UNCHANGED <<stream_vars, call>>

NextCache ==
    \/ CacheCreateMessage
    \/ CacheWriteFile
    \/ CacheReset

SpecCache == InitCache /\ [][NextCache]_vars

\* What a model name resolves to with the cache as it is: the model and
\* the extras, the mappings of the extras with all they hold.
ResolvedOnHeap(h, map, m) ==
    LET r == _map_model_and_extras(JStr(m), MappingView(h, map))
    IN  [model |-> r.model, extra |-> DeepValue(h, JDict(r.extra))]

\* C39: resolving a model and merging its extras into the request never
\* changes the cached model map: across every step that leaves the cache
\* in place (a request, or the file rewritten without the cache being
\* reset), every model name resolves to the same model and extras.
C39_CacheUnchangedByRequests ==
    [][srv.pc = "cache" /\ srv.cache # NoneRec /\ srv'.cache # NoneRec
         => \A m \in {M_cs, M_zz} :
                ResolvedOnHeap(srv'.heap, srv'.cache.map, m) =
                    ResolvedOnHeap(srv.heap, srv.cache.map, m)]_vars

\* The second request against the same cache carried a tool_choice that
\* was merged with the tool_choice of the extras; the extras of the cache
\* still hold theirs alone.
C39_Witness ==
    /\ srv.pc = "cache"
    /\ srv.requests = 2
    /\ srv.cache # NoneRec
    /\ srv.posted # JNone
    /\ Get(srv.posted.d, "tool_choice") =
           JDict([type |-> JStr(S_auto), mode |-> JStr(<<"x">>)])
    /\ ResolvedOnHeap(srv.heap, srv.cache.map, M_cs).extra =
           JDict([tool_choice |-> JDict([mode |-> JStr(<<"x">>)]),
                  text |-> JDict([format |-> JDict([type |-> JStr(<<"j">>)])])])

----------------------------------------------------------------------------
\* Two calls of iter_anthropic_events at the same time.  The dictionary and
\* the lists of a _StreamState (tool_calls, tool_queue, pending_text) are
\* objects of a heap and the state holds references to them; the other
\* fields are values of the state.  srv holds the heap and the two
\* generators, each with its state, the events it read and the events it
\* yielded.  The generators are advanced one event at a time, in any order.

\* Upstream events read by each of the two generators.
MaxInstanceEvents == 2

\* _StreamState(message_id=..., model=...) whose dictionary and lists are
\* the same objects for every state, as defaults evaluated once would be.
StreamStateSharedDefaults(heap, message_id) ==
    [heap |-> IF heap = <<>> THEN <<<<>>, <<>>, <<>>>> ELSE heap,
     st |-> [NewStreamState EXCEPT !.message_id = message_id],
     refs |-> [tool_calls |-> 1, tool_queue |-> 2, pending_text |-> 3]]

\* _StreamState(message_id=..., model=...): every default_factory makes a
\* new object.
StreamStateOnHeap(heap, message_id) ==
    [heap |-> heap \o <<<<>>, <<>>, <<>>>>,
     st |-> [NewStreamState EXCEPT !.message_id = message_id],
     refs |-> [tool_calls |-> Len(heap) + 1, tool_queue |-> Len(heap) + 2,
               pending_text |-> Len(heap) + 3]]

\* The state of a generator as its code reads it: the fields with the
\* objects they refer to.
StateOf(heap, g) ==
    [g.st EXCEPT !.tool_calls = heap[g.refs.tool_calls],
                 !.tool_queue = heap[g.refs.tool_queue],
                 !.pending_text = heap[g.refs.pending_text]]

\* The heap after the code left the state s to a generator of these
\* references.
HeapAfter(heap, refs, s) ==
    [heap EXCEPT ![refs.tool_calls] = s.tool_calls,
                 ![refs.tool_queue] = s.tool_queue,
                 ![refs.pending_text] = s.pending_text]

\* The fields of the state that are values.
ValueFields(s) ==
    [s EXCEPT !.tool_calls = <<>>, !.tool_queue = <<>>, !.pending_text = <<>>]

\* One iteration of the loop of iter_anthropic_events on the event ev.
HandleEvent(c, kr, ev) ==
    CASE ev.type = "response.output_item.added" ->
            OutputItemAdded(c, kr, ev.item)
      [] ev.type = "response.output_text.delta" ->
            OutputTextDelta(c, ev.delta)
      [] ev.type = "response.function_call_arguments.delta" ->
            FunctionCallArgumentsDelta(c, ev.item_id, ev.has_delta, ev.delta)
      [] ev.type = "response.output_item.done" -> OutputItemDone(c, ev.item)
      [] ev.type = "response.completed" -> TerminalEvent(c, kr, ev.response)
      [] OTHER -> c

\* The events the upstreams send.
InstanceEvents ==
    {[type |-> "response.output_item.added", item |-> ToolItem("fc_1")],
     [type |-> "response.function_call_arguments.delta", item_id |-> "fc_1",
      has_delta |-> TRUE, delta |-> <<"A">>],
     [type |-> "response.output_text.delta", delta |-> <<"B">>],
     [type |-> "response.output_item.done",
      item |-> [id |-> "fc_1", type |-> "function_call"]],
     [type |-> "response.completed",
      response |-> [NoResponseFields EXCEPT !.usage = [output_tokens |-> 2]]]}

MessageIds == <<"msg_1", "msg_2">>

Generator(s) ==
    [st |-> ValueFields(s.st), refs |-> s.refs, out |-> <<>>, inp |-> <<>>,
     pc |-> "loop"]

SecondStarted(first, second) ==
    [pc |-> "two", heap |-> second.heap,
     inst |-> <<Generator(first), Generator(second)>>]

FirstStarted(first) ==
    SecondStarted(first, StreamStateOnHeap(first.heap, MessageIds[2]))

InitTwo ==
    /\ st = NewStreamState
    /\ out = <<>>
    /\ pc = "loop"
    /\ keep_reasoning_summary = FALSE
    /\ inp = <<>>
    /\ src = <<>>
    /\ call = NoCall
    /\ srv = FirstStarted(StreamStateOnHeap(<<>>, MessageIds[1]))

\* Generator i after the code of one iteration (or of the end of the
\* input) left the computation c.
Advanced(i, c, read, next_pc) ==
    [srv EXCEPT
        !.heap = HeapAfter(@, srv.inst[i].refs, c.st),
        !.inst[i] = [st |-> ValueFields(c.st), refs |-> srv.inst[i].refs,
                     out |-> c.out, inp |-> read, pc |-> next_pc]]

\* Generator i reads an event.
InstanceReads ==
    \E i \in 1..2, ev \in InstanceEvents :
        /\ srv.pc = "two"
        /\ srv.inst[i].pc = "loop"
        /\ Len(srv.inst[i].inp) < MaxInstanceEvents
        /\ srv' = Advanced(i,
                           HandleEvent([st |-> StateOf(srv.heap, srv.inst[i]),
                                        out |-> srv.inst[i].out], FALSE, ev),
                           Append(srv.inst[i].inp, ev),
                           IF ev.type = "response.completed" THEN AfterTerminal
                           ELSE "loop")
        /\ UNCHANGED <<stream_vars, call>>

\* The input of generator i ends.
InstanceInputEnds ==
    \E i \in 1..2 :
        /\ srv.pc = "two"
        /\ srv.inst[i].pc = "loop"
        /\ srv' = Advanced(i,
                           EndOfStream([st |-> StateOf(srv.heap, srv.inst[i]),
                                        out |-> srv.inst[i].out], FALSE),
                           srv.inst[i].inp, "exhausted")
        /\ UNCHANGED <<stream_vars, call>>

NextTwo ==
    \/ InstanceReads
    \/ InstanceInputEnds

SpecTwo == InitTwo /\ [][NextTwo]_vars

\* A generator run alone on the events read: the computation after them.
RECURSIVE RunAloneFrom(_, _)
RunAloneFrom(c, events) ==
    IF events = <<>> THEN c
    ELSE RunAloneFrom(HandleEvent(c, FALSE, Head(events)), Tail(events))

\* What a generator yields when it is run alone on the events read, its
\* input having ended or not.
YieldedAlone(message_id, events, ended) ==
    LET c == RunAloneFrom([st |-> [NewStreamState EXCEPT
                                      !.message_id = message_id],
                           out |-> <<>>], events)
    IN  IF ended THEN EndOfStream(c, FALSE).out ELSE c.out

\* C40: two streaming transforms running at the same time do not
\* interfere: however their upstream events are interleaved, each has
\* yielded exactly the events it yields when run alone on the events it
\* read.
C40_InstancesDoNotInterfere ==
    srv.pc = "two"
        => \A i \in 1..2 :
               srv.inst[i].out =
                   YieldedAlone(MessageIds[i], srv.inst[i].inp,
                                srv.inst[i].pc = "exhausted")

\* The first generator was told of fc_1 and streams its arguments; the
\* second read a delta for fc_1, of which it was not told, and yielded
\* nothing.
C40_Witness ==
    /\ srv.pc = "two"
    /\ Len(srv.inst[1].inp) = 2
    /\ srv.inst[1].inp[1].type = "response.output_item.added"
    /\ srv.inst[1].inp[2].type = "response.function_call_arguments.delta"
    /\ Len(srv.inst[1].out) = 4
    /\ Len(srv.inst[2].inp) = 1
    /\ srv.inst[2].inp[1].type = "response.function_call_arguments.delta"
    /\ srv.inst[2].out = <<>>

====
